---- MODULE Spec2Model ----
(***************************************************************************)
(* Model of the HappyTester orchestration engine.                          *)
(*                                                                         *)
(* Two entry points of the repository are modelled; `mode' says which one  *)
(* is running:                                                             *)
(*   "executor" - TestExecutor.retry_test_execution driving the Selenium   *)
(*                sessions ChromePublisher / SafariSubscriber and the      *)
(*                ManualVerificationInterface;                             *)
(*   "mcp"      - a caller of PuppeteerMCPClient (main.py, the test_*.py   *)
(*                scripts) launching browsers, publishing, assessing the   *)
(*                connection, asking for the manual verdict, cleaning up.  *)
(*                                                                         *)
(* Text is modelled as a sequence of one-character strings where the code  *)
(* normalises it (lower(), strip()); messages the code only builds and     *)
(* passes on are sequences of fragments.                                   *)
(*                                                                         *)
(* Environment assumptions: logger calls, print, asyncio.sleep and         *)
(* subprocess.run(["pkill", ...]) (no check=True) do not raise.            *)
(***************************************************************************)
EXTENDS Integers, Sequences, FiniteSets, TLC

\* ---------------------------------------------------------------- bounds
MaxRetriesBound == 3
MaxReprompts == 2
MaxCloses == 2
MaxLaunches == 2
MaxCleanups == 2
MaxConsoleEvents == 1
MaxLogs == 21
MaxStreams == 1
MaxButtons == 2

\* ------------------------------------------------------- text primitives
IsSpace(c) == c \in {" ", "\t"}

UpperLetters == <<"A", "B", "C", "D", "E", "F", "G", "H", "I", "J", "K", "L", "M",
                  "N", "O", "P", "Q", "R", "S", "T", "U", "V", "W", "X", "Y", "Z">>
LowerLetters == <<"a", "b", "c", "d", "e", "f", "g", "h", "i", "j", "k", "l", "m",
                  "n", "o", "p", "q", "r", "s", "t", "u", "v", "w", "x", "y", "z">>

LowerMap == [c \in { UpperLetters[i] : i \in DOMAIN UpperLetters } |->
               LowerLetters[CHOOSE i \in DOMAIN UpperLetters : UpperLetters[i] = c]]
UpperMap == [c \in { LowerLetters[i] : i \in DOMAIN LowerLetters } |->
               UpperLetters[CHOOSE i \in DOMAIN LowerLetters : LowerLetters[i] = c]]


Lower(s) == [i \in DOMAIN s |-> IF s[i] \in DOMAIN LowerMap THEN LowerMap[s[i]] ELSE s[i]]

Upper(s) == [i \in DOMAIN s |-> IF s[i] \in DOMAIN UpperMap THEN UpperMap[s[i]] ELSE s[i]]

\* Python's `kw in text' on strings: kw occurs as a contiguous substring.
Contains(text, kw) ==
  \E i \in 0..(Len(text) - Len(kw)) :
    \A j \in 1..Len(kw) : text[i + j] = kw[j]

PyBool(b) == IF b THEN "True" ELSE "False"

RECURSIVE LStrip(_)
LStrip(s) == IF s # <<>> /\ IsSpace(Head(s)) THEN LStrip(Tail(s)) ELSE s

RECURSIVE RStrip(_)
RStrip(s) == IF s # <<>> /\ IsSpace(s[Len(s)])
               THEN RStrip(SubSeq(s, 1, Len(s) - 1)) ELSE s

Strip(s) == RStrip(LStrip(s))

\* ---------------------------------------------------- operator's input
\* What input() can deliver at a prompt: a line, end of input, or Ctrl-C.
ChoiceLines == { <<"p">>, <<"P">>, <<" ", "p", " ">>, <<"f">>, <<"F">>,
                 <<"r">>, <<"R">>, <<"q">>, <<"x">>, <<>> }
CommentLines == { <<>>, <<"a">>, <<" ", "a", " ">>, <<"a", " ", "b">>, <<" ">> }
RetryLines == { <<"y">>, <<"y", "e", "s">>, <<"Y">>, <<"n">>, <<"n", "o">>,
                <<" ", "N", "O">>, <<"x">>, <<>> }
Interrupts == { "EOFError", "KeyboardInterrupt" }

InputsOf(lines) ==
  { [kind |-> "line", text |-> t] : t \in lines }
    \cup { [kind |-> k, text |-> <<>>] : k \in Interrupts }

\* ------------------------------------------------------------- records
Roles == {"chrome", "safari"}

TestResult(passed, comment, error) ==
  [set |-> TRUE, passed |-> passed, comment |-> comment, error |-> error]
NoResult == [set |-> FALSE, passed |-> FALSE, comment |-> <<>>, error |-> <<>>]

VerificationResult(passed, comment) ==
  [set |-> TRUE, passed |-> passed, comment |-> comment]
NoVerification == [set |-> FALSE, passed |-> FALSE, comment |-> <<>>]

WorkflowResult(success, error, shot) ==
  [set |-> TRUE, success |-> success, error |-> error, screenshot |-> shot]
NoWorkflowResult == [set |-> FALSE, success |-> FALSE, error |-> <<>>, screenshot |-> FALSE]

\* No resolver / probe call made, nothing returned.
\* A request to the vision model: what is asked for, and how many
\* structural strategies the same call tried (and saw fail) before it.
NoVisionCall == [query |-> "", structural |-> 0]

NoCall == [op |-> ""]
NoReturn == [op |-> ""]

\* What retry_test_execution did after the last attempt returned.
NoRetry == [asked |-> FALSE, answer |-> "", paused |-> FALSE]

NoGateInput == [choice |-> <<>>, comment |-> <<>>, last |-> "", reprompts |-> 0, calls |-> 0,
                retried |-> FALSE]

VARIABLES
  mode,                 \* which entry point runs
  pc,                   \* control position
  max_retries,          \* argument of retry_test_execution
  attempt,              \* loop variable of retry_test_execution (-1: unbound)
  executions,           \* calls of execute_c107928 so far
  passes,               \* calls of execute_c107928 that returned passed = True
  result,               \* local `result' of retry_test_execution
  ctl,                  \* role -> [driver, is_running] (BrowserController fields)
  live,                 \* role -> drivers launched and not yet quit
  closes,               \* role -> outcomes of driver.quit() on the current handle (capped)
  pub_result,           \* publisher_result of the current attempt
  sub_result,           \* subscriber_result of the current attempt
  verification_result,  \* verification_result of the current attempt
  cleanups,             \* cleanup_browsers calls in the current attempt
  sub_started,          \* execute_subscriber_workflow was called in this attempt
  gate_in,              \* what the operator typed at the gate in this attempt
  aborted,              \* the operator aborted at the gate (q / interrupted input)
  exc,                  \* exception in flight inside execute_c107928
  raised,               \* exception that escaped to the caller ("" = none)
  close_raised,         \* a close_browser / cleanup call raised to its caller
  browsers,             \* PuppeteerMCPClient.browsers: id -> launch number of the
                        \*   registered browser (0: id not in the registry)
  procs,                \* id -> browser processes launched and still running
  launches,             \* id -> launch calls so far
  playwright,           \* state of self.playwright
  console_logs,         \* PuppeteerMCPClient.console_logs
  mcp_cleanups,         \* calls of PuppeteerMCPClient.cleanup so far
  mcp_last,             \* the last PuppeteerMCPClient operation and what it returned
  probe_in,             \* arguments of assess_connection_quality
  quality,              \* what assess_connection_quality returned ("" = not called)
  res_in,               \* a resolver / probe call: the method and how the page behaves
  res_out,              \* what that call did and returned
  wf_raised,            \* a session workflow raised to execute_c107928
  vision,               \* how the last computer_use_action of this attempt ended
  vision_call,          \* the last request a workflow step sent to the vision model
  cleanup_log,          \* what the last cleanup_browsers did, in order
  join_el,              \* role -> visibility of the join element the workflow clicked
  positioned,           \* the window layout of the attempt: "" before step 3, "ok" or
                        \* "failed" as step 3 went, "closed" once the attempt returned
  retry                 \* the retry question after the last attempt: asked, answer, pause

execVars == <<pc, max_retries, attempt, executions, passes, result, ctl, live, closes,
              pub_result, sub_result, verification_result, cleanups, sub_started,
              gate_in, aborted, exc, wf_raised, raised, close_raised>>

execVarsButPc == <<max_retries, attempt, executions, passes, result, ctl, live, closes,
                   pub_result, sub_result, verification_result, cleanups, sub_started,
                   gate_in, aborted, exc, wf_raised, raised, close_raised>>

obsVars == <<vision, vision_call, cleanup_log, join_el, positioned, retry>>

mcpVars == <<browsers, procs, launches, playwright, console_logs, mcp_cleanups, mcp_last>>

probeVars == <<probe_in, quality, res_in, res_out>>

vars == <<mode, execVars, mcpVars, probeVars, obsVars>>

\* ------------------------------------------------- BrowserController
NoDriver == 0


\* BrowserController.launch_browser.  out = "ctor_fail": webdriver.Chrome /
\* webdriver.Safari raised, self.driver keeps its old value; "get_fail": the
\* driver was created, driver.get(url) raised; "ok".  _handle_permissions
\* catches everything.  The new driver's id is the number of the attempt.
launch_browser(c, out, id) ==
  CASE out = "ctor_fail" -> c
    [] out = "get_fail"  -> [c EXCEPT !.driver = id]
    [] out = "ok"        -> [driver |-> id, is_running |-> TRUE]

QuitOutcomes == {"ok", "raise_live", "raise_dead"}

\* Variant of close_browser without the `except Exception' handler.
close_browser_unhandled(c, r, lv, q) ==
  IF c.driver = NoDriver
    THEN [ctl |-> c, live |-> lv, raised |-> FALSE, quit |-> FALSE]
    ELSE IF q = "ok"
      THEN [ctl |-> [c EXCEPT !.is_running = FALSE],
            live |-> IF r = "safari" THEN {} ELSE lv \ {c.driver},
            raised |-> FALSE, quit |-> TRUE]
      ELSE [ctl |-> c,
            live |-> IF q = "raise_dead" THEN lv \ {c.driver} ELSE lv,
            raised |-> TRUE, quit |-> TRUE]

\* BrowserController.close_browser on controller c of role r.
\* q is what driver.quit() does: succeed, or raise leaving the browser
\* running / gone.  Returns the new controller, the new live set of the
\* role, and whether an exception reaches the caller.
close_browser(c, r, lv, q) ==
  IF c.driver = NoDriver
    THEN [ctl |-> c, live |-> lv, raised |-> FALSE, quit |-> FALSE]
    ELSE IF q = "ok"
      THEN [ctl |-> [c EXCEPT !.is_running = FALSE],
            live |-> IF r = "safari" THEN {} ELSE lv \ {c.driver},
            raised |-> FALSE, quit |-> TRUE]
      ELSE [ctl |-> c,
            live |-> IF r = "safari" THEN {}
                     ELSE IF q = "raise_dead" THEN lv \ {c.driver} ELSE lv,
            raised |-> FALSE, quit |-> TRUE]


\* ------------------------------------------- ManualVerificationInterface
\* One pass of the `while True' body of get_verification_result up to the
\* choice: what the loop does with the input delivered at the choice prompt.
gate_on_choice(inp) ==
  IF inp.kind = "KeyboardInterrupt"
    THEN [next |-> "return", aborted |-> TRUE,
          result |-> VerificationResult(FALSE, <<"Test interrupted by user">>)]
  ELSE IF inp.kind = "EOFError"
    THEN [next |-> "return", aborted |-> TRUE,
          result |-> VerificationResult(FALSE, <<"Input stream closed">>)]
  ELSE LET choice == Strip(Lower(inp.text)) IN
    IF choice = <<"p">> \/ choice = <<"f">>
      THEN [next |-> "comment", aborted |-> FALSE, result |-> NoVerification]
    ELSE IF choice = <<"r">>
      THEN [next |-> "reprompt", aborted |-> FALSE, result |-> NoVerification]
    ELSE IF choice = <<"q">>
      THEN [next |-> "return", aborted |-> TRUE,
            result |-> VerificationResult(FALSE, <<"Test aborted by user">>)]
    ELSE [next |-> "reprompt", aborted |-> FALSE, result |-> NoVerification]


\* Variant of gate_on_comment that compares the raw choice line with 'p'.
gate_on_comment_raw_choice(choiceLine, inp) ==
  IF inp.kind = "KeyboardInterrupt"
    THEN [next |-> "return", aborted |-> TRUE,
          result |-> VerificationResult(FALSE, <<"Test interrupted by user">>)]
  ELSE IF inp.kind = "EOFError"
    THEN [next |-> "return", aborted |-> TRUE,
          result |-> VerificationResult(FALSE, <<"Input stream closed">>)]
  ELSE [next |-> "return", aborted |-> FALSE,
        result |-> VerificationResult(choiceLine = <<"p">>, Strip(inp.text))]

\* The comment prompt that follows 'p' or 'f' (same try block).
gate_on_comment(choiceLine, inp) ==
  IF inp.kind = "KeyboardInterrupt"
    THEN [next |-> "return", aborted |-> TRUE,
          result |-> VerificationResult(FALSE, <<"Test interrupted by user">>)]
  ELSE IF inp.kind = "EOFError"
    THEN [next |-> "return", aborted |-> TRUE,
          result |-> VerificationResult(FALSE, <<"Input stream closed">>)]
  ELSE [next |-> "return", aborted |-> FALSE,
        result |-> VerificationResult(Strip(Lower(choiceLine)) = <<"p">>,
                                      Strip(inp.text))]

\* prompt_for_retry: one pass of its loop.
prompt_for_retry(inp) ==
  IF inp.kind \in Interrupts THEN "no"
  ELSE LET choice == Strip(Lower(inp.text)) IN
    IF choice \in { <<"y">>, <<"y", "e", "s">> } THEN "yes"
    ELSE IF choice \in { <<"n">>, <<"n", "o">> } THEN "no"
    ELSE "reprompt"

\* ----------------------------------------------------------- Init
InitExec ==
  /\ attempt = -1
  /\ executions = 0
  /\ passes = 0
  /\ result = NoResult
  /\ ctl = [r \in Roles |-> [driver |-> NoDriver, is_running |-> FALSE]]
  /\ live = [r \in Roles |-> {}]
  /\ closes = [r \in Roles |-> <<>>]
  /\ pub_result = NoWorkflowResult
  /\ sub_result = NoWorkflowResult
  /\ verification_result = NoVerification
  /\ cleanups = 0
  /\ sub_started = FALSE
  /\ gate_in = NoGateInput
  /\ aborted = FALSE
  /\ exc = <<>>
  /\ wf_raised = FALSE
  /\ raised = ""
  /\ close_raised = FALSE
  /\ vision = ""
  /\ vision_call = NoVisionCall
  /\ cleanup_log = <<>>
  /\ join_el = [r \in Roles |-> ""]
  /\ positioned = ""
  /\ retry = NoRetry

\* --------------------------------------------- TestExecutor: retry loop
\* Variant of range_has_next with an off-by-one bound.
range_has_next_inclusive(att, maxr) == att + 1 <= maxr

\* `for attempt in range(max_retries)': is there a next iteration?
range_has_next(att, maxr) == att + 1 < maxr

\* The loop head and the call of execute_c107928.
RetryLoopHead ==
  /\ mode = "executor" /\ pc = "loop"
  /\ IF range_has_next(attempt, max_retries)
       THEN /\ attempt' = attempt + 1
            /\ executions' = executions + 1
            /\ pub_result' = NoWorkflowResult
            /\ sub_result' = NoWorkflowResult
            /\ verification_result' = NoVerification
            /\ cleanups' = 0
            /\ sub_started' = FALSE
            /\ gate_in' = NoGateInput
            /\ vision' = ""
            /\ vision_call' = NoVisionCall
            /\ cleanup_log' = <<>>
            /\ join_el' = [r \in Roles |-> ""]
            /\ positioned' = ""
            /\ pc' = "pub_launch"
       ELSE /\ pc' = "return"
            /\ UNCHANGED <<attempt, executions, pub_result, sub_result,
                           verification_result, cleanups, sub_started, gate_in,
                           vision, vision_call, cleanup_log, join_el, positioned>>
  /\ UNCHANGED <<mode, retry, mcpVars, probeVars, passes, max_retries, result, ctl, live, closes, aborted, exc, wf_raised,
                 raised, close_raised>>

\* Variant of after_workflow that does not test the publisher's result.
after_workflow_unchecked(r, success) ==
  IF r = "chrome" THEN "sub_launch"
  ELSE IF success THEN "position"
  ELSE "attempt_returned"

\* Variant of after_workflow that enters the gate without the layout step.
after_workflow_to_gate(r, success) ==
  IF ~success THEN "attempt_returned"
  ELSE IF r = "chrome" THEN "sub_launch"
  ELSE "gate_choice"

\* execute_c107928 after a session workflow returned (lines 51-58, 60-66):
\* a failure ends the attempt, the publisher's success starts the
\* subscriber workflow, the subscriber's success goes on to the layout.
after_workflow(r, success) ==
  IF ~success THEN "attempt_returned"
  ELSE IF r = "chrome" THEN "sub_launch"
  ELSE "position"

\* The TestResult of an attempt ended by a failed workflow (lines 52-54, 61-63).
setup_failed(r, err) ==
  TestResult(FALSE, <<>>,
             (IF r = "chrome" THEN <<"Chrome publisher setup failed: ">>
                              ELSE <<"Safari subscriber setup failed: ">>) \o err)

\* A session workflow returns a failure dict and execute_c107928 turns it
\* into a failed TestResult (lines 51-54 / 60-63).
WorkflowFails(r, err, shot) ==
  /\ IF r = "chrome"
       THEN /\ pub_result' = WorkflowResult(FALSE, err, shot)
            /\ result' = setup_failed(r, err)
            /\ UNCHANGED sub_result
       ELSE /\ sub_result' = WorkflowResult(FALSE, err, shot)
            /\ result' = setup_failed(r, err)
            /\ UNCHANGED pub_result
  /\ pc' = after_workflow(r, FALSE)
  /\ sub_started' = (sub_started \/ (r = "chrome" /\ after_workflow(r, FALSE) = "sub_launch"))
  /\ UNCHANGED <<exc, wf_raised>>

\* An exception inside the workflow's try: the handler captures an error
\* screenshot, which itself may raise (ImageGrab); then the exception
\* leaves the workflow and is caught by execute_c107928.
WorkflowRaises(r, e) ==
  \E shot_ok \in BOOLEAN :
    IF shot_ok
      THEN WorkflowFails(r, <<e>>, TRUE)
      ELSE /\ pc' = "except"
           /\ exc' = <<"screen grab failed">>
           /\ wf_raised' = TRUE
           /\ UNCHANGED <<pub_result, sub_result, result, sub_started>>

\* Variant of Launch that ignores what launch_browser returned.
Launch_unchecked(r, nextpc, err) ==
  \E out \in {"ctor_fail", "get_fail", "ok"} :
    /\ ctl' = [ctl EXCEPT ![r] = launch_browser(ctl[r], out, executions)]
    /\ live' = [live EXCEPT ![r] = IF out = "ctor_fail" THEN @ ELSE @ \cup {executions}]
    /\ closes' = [closes EXCEPT ![r] = IF out = "ctor_fail" THEN @ ELSE <<>>]
    /\ pc' = nextpc
    /\ UNCHANGED <<pub_result, sub_result, result, exc, wf_raised, sub_started>>

\* Step 1 of a session workflow: launch_browser, and the failure return
\* when it gave False.
Launch(r, nextpc, err) ==
  \E out \in ({"ctor_fail", "get_fail", "ok"}) :
    /\ ctl' = [ctl EXCEPT ![r] = launch_browser(ctl[r], out, executions)]
    /\ live' = [live EXCEPT ![r] = IF out = "ctor_fail" THEN @ ELSE @ \cup {executions}]
    /\ closes' = [closes EXCEPT ![r] = IF out = "ctor_fail" THEN @ ELSE <<>>]
    /\ IF out = "ok"
         THEN pc' = nextpc /\ UNCHANGED <<pub_result, sub_result, result, exc, wf_raised, sub_started>>
         ELSE WorkflowFails(r, err, FALSE)

\* ------------------------- BrowserController._click_element_selenium
\* _click_element_selenium: the selector lists (lines 382-421).
join_channel_selectors ==
  << "//button[contains(text(), 'Join Channel')]",
     "//button[contains(text(), 'Join')]",
     "button[class*='join']",
     "[data-testid*='join']" >>

publish_dropdown_selectors ==
  << "//button[contains(text(), 'Publish')]",
     "//select[contains(@id, 'publish')]",
     "button[class*='publish']",
     "[data-testid*='publish']",
     ".dropdown-toggle" >>

publish_audio_video_selectors ==
  << "//option[contains(text(), 'Publish Audio + Video')]",
     "//li[contains(text(), 'Publish Audio + Video')]",
     "//a[contains(text(), 'Publish Audio + Video')]",
     "//div[contains(text(), 'Publish Audio + Video')]",
     "//span[contains(text(), 'Publish Audio + Video')]",
     "[data-value*='audio-video']",
     ".dropdown-item",
     ".dropdown-menu option",
     ".dropdown-menu li" >>

publish_audio_selectors ==
  << "//button[contains(text(), 'Publish Audio')]",
     "//button[contains(text(), 'Audio')]",
     "button[class*='audio']",
     "[data-testid*='audio']" >>

stop_selectors ==
  << "//button[contains(text(), 'Stop')]",
     "button[class*='stop']",
     "[data-testid*='stop']" >>

\* The element descriptions a caller passes.
Descriptions ==
  { <<"J", "o", "i", "n", " ", "C", "h", "a", "n", "n", "e", "l", " ", "b", "u", "t", "t", "o", "n">>,
    <<"P", "u", "b", "l", "i", "s", "h", " ", "d", "r", "o", "p", "d", "o", "w", "n">>,
    <<"P", "u", "b", "l", "i", "s", "h", " ", "A", "u", "d", "i", "o", " ", "+", " ", "V", "i", "d", "e", "o", " ", "o", "p", "t", "i", "o", "n">>,
    <<"P", "u", "b", "l", "i", "s", "h", " ", "A", "u", "d", "i", "o", " ", "b", "u", "t", "t", "o", "n">>,
    <<"S", "t", "o", "p", " ", "b", "u", "t", "t", "o", "n">>,
    <<"P", "U", "B", "L", "I", "S", "H", " ", "A", "U", "D", "I", "O", " ", "+", " ", "V", "I", "D", "E", "O">>,
    <<"P", "u", "b", "l", "i", "s", "h", " ", "d", "r", "o", "p", "d", "o", "w", "n", ":", " ", "P", "u", "b", "l", "i", "s", "h", " ", "A", "u", "d", "i", "o", " ", "+", " ", "V", "i", "d", "e", "o">>,
    <<"V", "o", "l", "u", "m", "e">> }

\* The if / elif chain on the lower-cased description.
selectors_for(description) ==
  LET d == Lower(description) IN
    IF Contains(d, <<"j", "o", "i", "n", " ", "c", "h", "a", "n", "n", "e", "l">>) THEN join_channel_selectors
    ELSE IF Contains(d, <<"p", "u", "b", "l", "i", "s", "h", " ", "d", "r", "o", "p", "d", "o", "w", "n">>) THEN publish_dropdown_selectors
    ELSE IF Contains(d, <<"p", "u", "b", "l", "i", "s", "h", " ", "a", "u", "d", "i", "o", " ", "+", " ", "v", "i", "d", "e", "o">>) THEN publish_audio_video_selectors
    ELSE IF Contains(d, <<"p", "u", "b", "l", "i", "s", "h", " ", "a", "u", "d", "i", "o">>) THEN publish_audio_selectors
    ELSE IF Contains(d, <<"s", "t", "o", "p">>) THEN stop_selectors
    ELSE <<>>

\* ------------------------ BrowserController._wait_for_element_selenium
\* Variant of wait_selectors_for that tests 'publish audio' before
\* 'publish audio + video'.
wait_selectors_for_audio_first(description) ==
  LET d == Lower(description)
      jc == << "//button[contains(text(), 'Join Channel')]",
               "//button[contains(text(), 'Join')]",
               "button[class*='join']",
               "[data-testid*='join']" >>
      pd == << "//button[contains(text(), 'Publish')]",
               "//select[contains(@id, 'publish')]",
               "button[class*='publish']",
               "[data-testid*='publish']",
               ".dropdown-toggle" >>
      av == << "//option[contains(text(), 'Publish Audio + Video')]",
               "//li[contains(text(), 'Publish Audio + Video')]",
               "//a[contains(text(), 'Publish Audio + Video')]",
               "//div[contains(text(), 'Publish Audio + Video')]",
               "//span[contains(text(), 'Publish Audio + Video')]",
               "[data-value*='audio-video']",
               ".dropdown-item",
               ".dropdown-menu option",
               ".dropdown-menu li" >>
      pa == << "//button[contains(text(), 'Publish Audio')]",
               "//button[contains(text(), 'Audio')]",
               "button[class*='audio']",
               "[data-testid*='audio']" >>
      st == << "//button[contains(text(), 'Stop')]",
               "button[class*='stop']",
               "[data-testid*='stop']" >>
  IN
    IF Contains(d, <<"j", "o", "i", "n", " ", "c", "h", "a", "n", "n", "e", "l">>) THEN jc
    ELSE IF Contains(d, <<"p", "u", "b", "l", "i", "s", "h", " ", "d", "r", "o", "p", "d", "o", "w", "n">>) THEN pd
    ELSE IF Contains(d, <<"p", "u", "b", "l", "i", "s", "h", " ", "a", "u", "d", "i", "o">>) THEN pa
    ELSE IF Contains(d, <<"p", "u", "b", "l", "i", "s", "h", " ", "a", "u", "d", "i", "o", " ", "+", " ", "v", "i", "d", "e", "o">>) THEN av
    ELSE IF Contains(d, <<"s", "t", "o", "p">>) THEN st
    ELSE <<>>

\* _wait_for_element_selenium: its own selector lists and if / elif chain
\* (lines 276-315).
wait_selectors_for(description) ==
  LET d == Lower(description)
      jc == << "//button[contains(text(), 'Join Channel')]",
               "//button[contains(text(), 'Join')]",
               "button[class*='join']",
               "[data-testid*='join']" >>
      pd == << "//button[contains(text(), 'Publish')]",
               "//select[contains(@id, 'publish')]",
               "button[class*='publish']",
               "[data-testid*='publish']",
               ".dropdown-toggle" >>
      av == << "//option[contains(text(), 'Publish Audio + Video')]",
               "//li[contains(text(), 'Publish Audio + Video')]",
               "//a[contains(text(), 'Publish Audio + Video')]",
               "//div[contains(text(), 'Publish Audio + Video')]",
               "//span[contains(text(), 'Publish Audio + Video')]",
               "[data-value*='audio-video']",
               ".dropdown-item",
               ".dropdown-menu option",
               ".dropdown-menu li" >>
      pa == << "//button[contains(text(), 'Publish Audio')]",
               "//button[contains(text(), 'Audio')]",
               "button[class*='audio']",
               "[data-testid*='audio']" >>
      st == << "//button[contains(text(), 'Stop')]",
               "button[class*='stop']",
               "[data-testid*='stop']" >>
  IN
    IF Contains(d, <<"j", "o", "i", "n", " ", "c", "h", "a", "n", "n", "e", "l">>) THEN jc
    ELSE IF Contains(d, <<"p", "u", "b", "l", "i", "s", "h", " ", "d", "r", "o", "p", "d", "o", "w", "n">>) THEN pd
    ELSE IF Contains(d, <<"p", "u", "b", "l", "i", "s", "h", " ", "a", "u", "d", "i", "o", " ", "+", " ", "v", "i", "d", "e", "o">>) THEN av
    ELSE IF Contains(d, <<"p", "u", "b", "l", "i", "s", "h", " ", "a", "u", "d", "i", "o">>) THEN pa
    ELSE IF Contains(d, <<"s", "t", "o", "p">>) THEN st
    ELSE <<>>

\* _wait_for_element_selenium (lines 270-333); outs[i] is what selector i of
\* the wait loop (lines 318-326) does.  "found": the element became clickable
\* within the timeout; "timeout": TimeoutException, go on; "raise": any other
\* exception, caught by the outer handler (False).
wait_for_element_selenium(description, outs) ==
  LET first == { i \in DOMAIN outs : outs[i] # "timeout" } IN
    [selectors |-> wait_selectors_for(description),
     ok |-> \E i \in first : outs[i] = "found" /\ \A j \in first : i <= j]

\* One selector of the loop (lines 424-431).  "timeout": wait.until or the
\* click raised TimeoutException / NoSuchElementException; "clicked": the
\* element became clickable and click() returned; "raise": any other
\* exception (an intercepted click, a stale element, a dead session).
SeleniumSteps == {"timeout", "clicked", "raise"}

RECURSIVE selenium_ladder(_, _, _)
selenium_ladder(outs, i, tried) ==
  IF i > Len(outs) THEN [tried |-> tried, clicked |-> <<>>, ok |-> FALSE]
  ELSE IF outs[i] = "clicked"
    THEN [tried |-> Append(tried, i), clicked |-> <<i>>, ok |-> TRUE]
  ELSE IF outs[i] = "timeout" THEN selenium_ladder(outs, i + 1, Append(tried, i))
  ELSE [tried |-> Append(tried, i), clicked |-> <<>>, ok |-> FALSE]   \* outer except

\* _click_element_selenium (lines 376-437); outs[i] is what selector i does.
click_element_selenium(outs) == selenium_ladder(outs, 1, <<>>)

\* ------------------------------------ BrowserController: vision and clicks

\* What the screen grab / the error screen grab of ScreenshotManager does.
GrabOutcomes == {"ok", "raise"}

\* What the vision model answers; in VisionAnswers, kind "raise" is a
\* request (or a parsing of its response) that raised.

VisionAnswers ==
  { [kind |-> "reply", text |-> t] : t \in ({ <<"F", "O", "U", "N", "D", ":", " ", "j", "o", "i", "n", "e", "d">>, <<"N", "o", "t", " ", "f", "o", "u", "n", "d">>, <<"N", "o">>, <<>> }) }
    \cup { [kind |-> "raise", text |-> <<>>] }

\* computer_use_action sends the request only when the screen grab
\* succeeded (lines 181-196); otherwise the last request stays as it was.
vision_request(last, query, structural, grab) ==
  IF grab = "ok" THEN [query |-> query, structural |-> structural] ELSE last

detection_keywords ==
  << <<"f", "o", "u", "n", "d">>,
     <<"s", "e", "e">>,
     <<"v", "i", "s", "i", "b", "l", "e">>,
     <<"l", "o", "c", "a", "t", "e", "d">>,
     <<"p", "r", "e", "s", "e", "n", "t">>,
     <<"i", "d", "e", "n", "t", "i", "f", "i", "e", "d">> >>

\* A variant that looks for the keywords in the response as it came,
\* without lower-casing it.
computer_use_action_case_sensitive(is_click, grab, reply, errshot) ==
  IF grab = "ok" /\ reply.kind # "raise"
    THEN IF is_click THEN "found"
         ELSE IF \E k \in DOMAIN detection_keywords :
                   Contains(reply.text, detection_keywords[k])
                THEN "found" ELSE "not_found"
    ELSE IF errshot = "ok" THEN "not_found" ELSE "raise"

\* computer_use_action (lines 177-248) as its caller experiences it.
\* is_click: "click" occurs in the lower-cased description.  The handler
\* of the outer try captures an error screenshot before it returns.
computer_use_action(is_click, grab, reply, errshot) ==
  IF grab = "ok" /\ reply.kind # "raise"
    THEN IF is_click THEN "found"
         ELSE IF \E k \in DOMAIN detection_keywords :
                   Contains(Lower(reply.text), detection_keywords[k])
                THEN "found" ELSE "not_found"
    ELSE IF errshot = "ok" THEN "not_found" ELSE "raise"

\* verify_text_present("joined") (lines 454-462): the prompt does not
\* contain "click", so the call is an element detection.
verify_text_present(grab, reply, errshot) ==
  computer_use_action(FALSE, grab, reply, errshot)

\* The instruction texts the callers build: verify_text_present("joined")
\* (line 457) and _click_element_claude (lines 443-446).
joined_prompt ==
  <<"L", "o", "o", "k", " ", "a", "t", " ", "t", "h", "i", "s", " ", "P", "i", "n", "e", " ", "R", "i", "d", "g", "e", " ", "a", "p", "p", "l", "i", "c", "a", "t", "i", "o", "n", " ", "s", "c", "r", "e", "e", "n", "s", "h", "o", "t", ".", " ", "C", "a", "n", " ", "y", "o", "u", " ", "s", "e", "e", " ", "a", "n", "y", " ", "t", "e", "x", "t", " ", "t", "h", "a", "t", " ", "i", "n", "d", "i", "c", "a", "t", "e", "s", " ", "t", "h", "e", " ", "u", "s", "e", "r", " ", "h", "a", "s", " ", "j", "o", "i", "n", "e", "d", " ", "a", " ", "c", "h", "a", "n", "n", "e", "l", "?", " ", "L", "o", "o", "k", " ", "f", "o", "r", " ", "t", "e", "x", "t", " ", "l", "i", "k", "e", " ", "'", "j", "o", "i", "n", "e", "d", "'", ",", " ", "'", "j", "o", "i", "n", "S", "t", "a", "t", "e", ":", " ", "j", "o", "i", "n", "e", "d", "'", ",", " ", "o", "r", " ", "s", "i", "m", "i", "l", "a", "r", " ", "s", "t", "a", "t", "u", "s", " ", "i", "n", "d", "i", "c", "a", "t", "o", "r", "s", ".", " ", "I", "f", " ", "y", "o", "u", " ", "s", "e", "e", " ", "i", "t", ",", " ", "r", "e", "s", "p", "o", "n", "d", " ", "w", "i", "t", "h", " ", "'", "F", "O", "U", "N", "D", "'", " ", "a", "n", "d", " ", "d", "e", "s", "c", "r", "i", "b", "e", " ", "w", "h", "a", "t", " ", "y", "o", "u", " ", "s", "e", "e", ".">>

click_stop_instruction ==
  <<"C", "l", "i", "c", "k", " ", "o", "n", " ", "t", "h", "e", " ", "S", "t", "o", "p", " ", "b", "u", "t", "t", "o", "n">>

click_option_instruction ==
  <<"C", "l", "i", "c", "k", " ", "o", "n", " ", "t", "h", "e", " ", "'", "P", "u", "b", "l", "i", "s", "h", " ", "A", "u", "d", "i", "o", " ", "+", " ", "V", "i", "d", "e", "o", "'", " ", "o", "p", "t", "i", "o", "n", " ", "i", "n", " ", "t", "h", "e", " ", "d", "r", "o", "p", "d", "o", "w", "n", " ", "m", "e", "n", "u", ".", " ", "L", "o", "o", "k", " ", "f", "o", "r", " ", "t", "h", "e", " ", "t", "e", "x", "t", " ", "'", "P", "u", "b", "l", "i", "s", "h", " ", "A", "u", "d", "i", "o", " ", "+", " ", "V", "i", "d", "e", "o", "'", " ", "a", "n", "d", " ", "c", "l", "i", "c", "k", " ", "d", "i", "r", "e", "c", "t", "l", "y", " ", "o", "n", " ", "i", "t", ".">>


\* Line 218: "click" in action_description.lower().
is_click_action(instruction) ==
  Contains(Lower(instruction), <<"c", "l", "i", "c", "k">>)

\* click_element (lines 363-374): the Selenium ladder first; only when it
\* reports failure, _click_element_claude (lines 439-452), which returns
\* the success of computer_use_action and False when that call raises.
\* structural: the selectors tried before the fallback; asked: the vision
\* model was sent the request.
click_element(outs, instruction, grab, reply, errshot) ==
  LET s == click_element_selenium(outs) IN
    IF s.ok THEN [ok |-> TRUE, structural |-> Len(s.tried), asked |-> FALSE]
    ELSE [ok |-> computer_use_action(is_click_action(instruction),
                                     grab, reply, errshot) = "found",
          structural |-> Len(s.tried), asked |-> (grab = "ok")]

\* ChromePublisher.stop_publishing: click_element("Stop button") inside a
\* try whose handler returns False.
stop_publishing(outs, grab, reply, errshot) ==
  click_element(outs, click_stop_instruction, grab, reply, errshot)


\* What stop_publishing can return, over the behaviours of the three Stop
\* selectors, the screen grab and the vision model.
StopResults ==
  { stop_publishing(o, g, r, e).ok :
      o \in [1..Len(stop_selectors) -> SeleniumSteps],
      g \in GrabOutcomes, r \in VisionAnswers, e \in GrabOutcomes }

\* The join element in the markup, as find_element meets it.
JoinElements == {"absent", "hidden", "visible"}

\* Variant of join_click that goes on when find_element found nothing.
join_click_unchecked(r, el, click_ok) ==
  IF r = "chrome" THEN el # "hidden" /\ click_ok
  ELSE click_ok

\* Step 3 of the workflows: find_element, then the click.  Chrome uses
\* WebElement.click(), which raises on an element that is not displayed;
\* Safari runs arguments[0].click() in the page, which does not look at
\* visibility.  click_ok: the click call itself returned.
join_click(r, el, click_ok) ==
  IF el = "absent" THEN FALSE
  ELSE IF r = "chrome" THEN el = "visible" /\ click_ok
  ELSE click_ok

\* ------------------------------- ChromePublisher.execute_publisher_workflow
PubLaunch ==
  /\ mode = "executor" /\ pc = "pub_launch"
  /\ Launch("chrome", "pub_join", <<"Failed to launch Chrome browser">>)
  /\ UNCHANGED <<mode, obsVars, mcpVars, probeVars, passes, max_retries, attempt, executions, verification_result,
                 cleanups, gate_in, aborted, raised, close_raised>>

PubJoin ==
  /\ mode = "executor" /\ pc = "pub_join"
  /\ \E el \in JoinElements, click_ok \in BOOLEAN :
       IF join_click("chrome", el, click_ok)
         THEN /\ pc' = "pub_verify"
              /\ join_el' = [join_el EXCEPT !["chrome"] = el]
              /\ UNCHANGED <<pub_result, sub_result, result, exc, wf_raised, sub_started>>
         ELSE /\ WorkflowFails("chrome",
                   <<"Failed to find/click Join Channel button: ", "NoSuchElement">>, FALSE)
              /\ UNCHANGED join_el
  /\ UNCHANGED <<mode, cleanup_log, vision, vision_call, positioned, retry, mcpVars, probeVars, passes, max_retries, attempt, executions, ctl, live, closes,
                 verification_result, cleanups, gate_in, aborted,
                 raised, close_raised>>

PubVerifyJoined ==
  /\ mode = "executor" /\ pc = "pub_verify"
  /\ \E grab \in GrabOutcomes, reply \in VisionAnswers,
          errshot \in GrabOutcomes :
       LET v == verify_text_present(grab, reply, errshot) IN
       /\ vision' = v
       /\ vision_call' = vision_request(vision_call, "joined", 0, grab)
       /\ CASE v = "found" -> pc' = "pub_dropdown"
                              /\ UNCHANGED <<pub_result, sub_result, result, exc, wf_raised, sub_started>>
            [] v = "not_found" -> WorkflowFails("chrome", <<"Join state not confirmed">>, FALSE)
            [] v = "raise" -> WorkflowRaises("chrome", "screen grab failed")
  /\ UNCHANGED <<mode, cleanup_log, join_el, positioned, retry, mcpVars, probeVars, passes, max_retries, attempt, executions, ctl, live, closes,
                 verification_result, cleanups, gate_in, aborted,
                 raised, close_raised>>

PubDropdown ==
  /\ mode = "executor" /\ pc = "pub_dropdown"
  /\ \E ok \in BOOLEAN :
       IF ok THEN pc' = "pub_option" /\ UNCHANGED <<pub_result, sub_result, result, exc, wf_raised, sub_started>>
       ELSE WorkflowFails("chrome",
              <<"Failed to find/click Publish dropdown: ", "NoSuchElement">>, FALSE)
  /\ UNCHANGED <<mode, obsVars, mcpVars, probeVars, passes, max_retries, attempt, executions, ctl, live, closes,
                 verification_result, cleanups, gate_in, aborted,
                 raised, close_raised>>

PubOption ==
  /\ mode = "executor" /\ pc = "pub_option"
  /\ \E ok \in BOOLEAN :
       IF ok THEN pc' = "pub_shot" /\ UNCHANGED <<pub_result, sub_result, result, exc, wf_raised, sub_started>>
       ELSE WorkflowFails("chrome",
              <<"Could not find Publish Audio + Video option in dropdown">>, FALSE)
  /\ UNCHANGED <<mode, obsVars, mcpVars, probeVars, passes, max_retries, attempt, executions, ctl, live, closes,
                 verification_result, cleanups, gate_in, aborted,
                 raised, close_raised>>

\* Steps 7-8 only log; then the ready screenshot and the success dict.
\* execute_c107928 goes on to call execute_subscriber_workflow.
PubScreenshot ==
  /\ mode = "executor" /\ pc = "pub_shot"
  /\ \E ok \in BOOLEAN :
       IF ok THEN /\ pub_result' = WorkflowResult(TRUE, <<>>, TRUE)
                  /\ pc' = after_workflow("chrome", TRUE)
                  /\ sub_started' = (after_workflow("chrome", TRUE) = "sub_launch")
                  /\ UNCHANGED <<sub_result, result, exc, wf_raised>>
       ELSE WorkflowRaises("chrome", "screen grab failed")
  /\ UNCHANGED <<mode, obsVars, mcpVars, probeVars, passes, max_retries, attempt, executions, ctl, live, closes,
                 verification_result, cleanups, gate_in, aborted,
                 raised, close_raised>>

\* ----------------------------- SafariSubscriber.execute_subscriber_workflow
SubLaunch ==
  /\ mode = "executor" /\ pc = "sub_launch"
  /\ Launch("safari", "sub_join", <<"Failed to launch Safari browser">>)
  /\ UNCHANGED <<mode, obsVars, mcpVars, probeVars, passes, max_retries, attempt, executions, verification_result,
                 cleanups, gate_in, aborted, raised, close_raised>>

SubJoin ==
  /\ mode = "executor" /\ pc = "sub_join"
  /\ \E el \in JoinElements, click_ok \in BOOLEAN :
       IF join_click("safari", el, click_ok)
         THEN /\ pc' = "sub_verify"
              /\ join_el' = [join_el EXCEPT !["safari"] = el]
              /\ UNCHANGED <<pub_result, sub_result, result, exc, wf_raised, sub_started>>
         ELSE /\ WorkflowFails("safari",
                   <<"Failed to find/click Join Channel button: ", "NoSuchElement">>, FALSE)
              /\ UNCHANGED join_el
  /\ UNCHANGED <<mode, cleanup_log, vision, vision_call, positioned, retry, mcpVars, probeVars, passes, max_retries, attempt, executions, ctl, live, closes,
                 verification_result, cleanups, gate_in, aborted,
                 raised, close_raised>>

SubVerifyJoined ==
  /\ mode = "executor" /\ pc = "sub_verify"
  /\ \E grab \in GrabOutcomes, reply \in VisionAnswers,
          errshot \in GrabOutcomes :
       LET v == verify_text_present(grab, reply, errshot) IN
       /\ vision' = v
       /\ vision_call' = vision_request(vision_call, "joined", 0, grab)
       /\ CASE v = "found" -> pc' = "sub_shot"
                              /\ UNCHANGED <<pub_result, sub_result, result, exc, wf_raised, sub_started>>
            [] v = "not_found" -> WorkflowFails("safari", <<"Join state not confirmed">>, FALSE)
            [] v = "raise" -> WorkflowRaises("safari", "screen grab failed")
  /\ UNCHANGED <<mode, cleanup_log, join_el, positioned, retry, mcpVars, probeVars, passes, max_retries, attempt, executions, ctl, live, closes,
                 verification_result, cleanups, gate_in, aborted,
                 raised, close_raised>>

SubScreenshot ==
  /\ mode = "executor" /\ pc = "sub_shot"
  /\ \E ok \in BOOLEAN :
       IF ok THEN /\ sub_result' = WorkflowResult(TRUE, <<>>, TRUE)
                  /\ pc' = after_workflow("safari", TRUE)
                  /\ UNCHANGED <<pub_result, result, exc, wf_raised, sub_started>>
       ELSE WorkflowRaises("safari", "screen grab failed")
  /\ UNCHANGED <<mode, obsVars, mcpVars, probeVars, passes, max_retries, attempt, executions, ctl, live, closes,
                 verification_result, cleanups, gate_in, aborted,
                 raised, close_raised>>

\* ------------------------------------------ TestExecutor.execute_c107928
\* Variant of position_windows_for_verification that lets a failure out.
position_windows_for_verification_unhandled(out) ==
  IF out = "failed" THEN "except" ELSE "gate_choice"

\* Step 3: position_windows_for_verification (lines 103-141).  out =
\* "failed": tkinter or one of the set_window_* calls raised; the inner
\* handler logs it and the method returns None all the same, so the
\* attempt goes on to get_verification_result.
position_windows_for_verification(out) == "gate_choice"

PositionWindows ==
  /\ mode = "executor" /\ pc = "position"
  /\ \E out \in {"ok", "failed"} :
       /\ positioned' = out
       /\ pc' = position_windows_for_verification(out)
       /\ gate_in' = IF pc' = "gate_choice" THEN [gate_in EXCEPT !.calls = @ + 1]
                     ELSE gate_in
  /\ UNCHANGED <<mode, cleanup_log, vision, vision_call, join_el, retry, mcpVars, probeVars, passes, max_retries, attempt, executions, result, ctl, live, closes,
                 pub_result, sub_result, verification_result, cleanups,
                 sub_started, aborted, exc, wf_raised, raised, close_raised>>

\* get_verification_result: the choice prompt.
GateChoice ==
  /\ mode = "executor" /\ pc = "gate_choice"
  /\ \E inp \in InputsOf(ChoiceLines) :
       LET g == gate_on_choice(inp) IN
         CASE g.next = "comment" ->
                /\ gate_in' = [gate_in EXCEPT !.choice = inp.text, !.last = inp.kind]
                /\ pc' = "gate_comment"
                /\ UNCHANGED <<verification_result, aborted, raised>>
           [] g.next = "reprompt" ->
                /\ gate_in.reprompts < MaxReprompts
                /\ gate_in' = [gate_in EXCEPT !.reprompts = @ + 1,
                                               !.retried = @ \/ (inp.kind = "line"
                                                 /\ Strip(Lower(inp.text)) = <<"r">>)]
                /\ UNCHANGED <<pc, verification_result, aborted, raised>>
           [] g.next = "return" ->
                /\ gate_in' = [gate_in EXCEPT !.choice = inp.text, !.last = inp.kind]
                /\ verification_result' = g.result
                /\ aborted' = (aborted \/ g.aborted)
                /\ pc' = "cleanup"
                /\ UNCHANGED raised
           [] g.next = "raise" ->
                /\ raised' = inp.kind
                /\ pc' = "done"
                /\ UNCHANGED <<gate_in, verification_result, aborted>>
  /\ UNCHANGED <<mode, obsVars, mcpVars, probeVars, passes, max_retries, attempt, executions, result, ctl, live, closes,
                 pub_result, sub_result, cleanups, sub_started, exc, wf_raised, close_raised>>

\* get_verification_result: the comment prompt after 'p' / 'f'.
GateComment ==
  /\ mode = "executor" /\ pc = "gate_comment"
  /\ \E inp \in InputsOf(CommentLines) :
       LET g == gate_on_comment(gate_in.choice, inp) IN
         IF g.next = "raise"
           THEN /\ raised' = inp.kind
                /\ pc' = "done"
                /\ UNCHANGED <<gate_in, verification_result, aborted>>
           ELSE /\ gate_in' = [gate_in EXCEPT !.comment = inp.text, !.last = inp.kind]
                /\ verification_result' = g.result
                /\ aborted' = (aborted \/ g.aborted)
                /\ pc' = "cleanup"
                /\ UNCHANGED raised
  /\ UNCHANGED <<mode, obsVars, mcpVars, probeVars, passes, max_retries, attempt, executions, result, ctl, live, closes,
                 pub_result, sub_result, cleanups, sub_started, exc, wf_raised, close_raised>>

\* TestExecutor.cleanup_browsers: stop_publishing while is_running (it
\* catches everything), then close_browser of both controllers inside one
\* try: an exception out of the first close skips the second.
\* cleanup_browsers (lines 143-160): stop_publishing while the publisher
\* is_running, then close_browser on the publisher and on the subscriber.
\* stop_ok is what stop_publishing returns when it is called; the code
\* does not look at it.
cleanup_browsers(stop_ok, qc, qs) ==
  LET stop == ctl["chrome"].is_running
      rc == close_browser(ctl["chrome"], "chrome", live["chrome"], qc)
      rs == IF rc.raised
              THEN [ctl |-> ctl["safari"], live |-> live["safari"],
                    raised |-> FALSE, quit |-> FALSE]
              ELSE close_browser(ctl["safari"], "safari", live["safari"], qs)
      bump(r, called, q) == IF called /\ Len(closes[r]) < MaxCloses
                              THEN Append(closes[r], q) ELSE closes[r]
  IN /\ ctl' = [chrome |-> rc.ctl, safari |-> rs.ctl]
     /\ live' = [chrome |-> rc.live, safari |-> rs.live]
     /\ closes' = [chrome |-> bump("chrome", rc.quit, qc),
                    safari |-> bump("safari", rs.quit, qs)]
     /\ close_raised' = (close_raised \/ rc.raised \/ rs.raised)
     /\ cleanups' = cleanups + 1
     /\ cleanup_log' = (IF stop THEN <<[op |-> "stop_publishing", ok |-> stop_ok]>> ELSE <<>>)
                          \o (IF rc.quit THEN <<[op |-> "quit_chrome", ok |-> qc = "ok"]>> ELSE <<>>)
                          \o (IF rs.quit THEN <<[op |-> "quit_safari", ok |-> qs = "ok"]>> ELSE <<>>)

\* Step 5 and the final TestResult (lines 77-91).
CleanupStep ==
  /\ mode = "executor" /\ pc = "cleanup"
  /\ \E stop_ok \in StopResults, qc \in QuitOutcomes, qs \in QuitOutcomes :
       cleanup_browsers(stop_ok, qc, qs)
  /\ result' = TestResult(verification_result.passed, verification_result.comment, <<>>)
  /\ pc' = "attempt_returned"
  /\ UNCHANGED <<mode, vision, vision_call, join_el, positioned, retry, mcpVars, probeVars, passes, max_retries, attempt, executions, pub_result, sub_result,
                 verification_result, sub_started, gate_in, aborted, exc, wf_raised, raised>>

\* `except Exception' of execute_c107928 (lines 93-101).
ExceptCleanup ==
  /\ mode = "executor" /\ pc = "except"
  /\ \E stop_ok \in StopResults, qc \in QuitOutcomes, qs \in QuitOutcomes :
       cleanup_browsers(stop_ok, qc, qs)
  /\ result' = TestResult(FALSE, <<>>, exc)
  /\ exc' = <<>>
  /\ pc' = "attempt_returned"
  /\ UNCHANGED <<mode, vision, vision_call, join_el, positioned, retry, mcpVars, probeVars, passes, max_retries, attempt, executions, pub_result, sub_result,
                 verification_result, sub_started, gate_in, aborted, wf_raised, raised>>

\* ------------------------------- TestExecutor.retry_test_execution, cont.
\* Variant of retry_after_attempt that asks after every failed attempt.
retry_after_attempt_always_ask(res, att, maxr) ==
  IF res.passed THEN "done"
  ELSE "retry_prompt"

\* After execute_c107928 returned: lines 170-173.
retry_after_attempt(res, att, maxr) ==
  IF res.passed THEN "done"
  ELSE IF att < maxr - 1 THEN "retry_prompt"
  ELSE "loop"

AttemptReturned ==
  /\ mode = "executor" /\ pc = "attempt_returned"
  /\ pc' = retry_after_attempt(result, attempt, max_retries)
  /\ retry' = NoRetry
  /\ passes' = IF result.passed THEN passes + 1 ELSE passes
  /\ positioned' = IF positioned = "" THEN "" ELSE "closed"
  /\ UNCHANGED <<mode, cleanup_log, vision, vision_call, join_el, mcpVars, probeVars, max_retries, attempt, executions, result, ctl, live, closes,
                 pub_result, sub_result, verification_result, cleanups, sub_started,
                 gate_in, aborted, exc, wf_raised, raised, close_raised>>

\* prompt_for_retry, then `break' or the pause and the next iteration.
RetryPrompt ==
  /\ mode = "executor" /\ pc = "retry_prompt"
  /\ \E inp \in InputsOf(RetryLines) :
       LET a == prompt_for_retry(inp) IN
         /\ retry' = [asked |-> TRUE, paused |-> FALSE,
                       answer |-> IF a \in {"yes", "no"} THEN a ELSE retry.answer]
         /\ CASE a = "yes" -> pc' = "backoff"
              [] a = "no" -> pc' = "return"
              [] a = "reprompt" -> UNCHANGED pc
  /\ UNCHANGED <<mode, cleanup_log, vision, vision_call, join_el, positioned, raised, mcpVars, probeVars, passes, max_retries, attempt, executions, result, ctl, live, closes,
                 pub_result, sub_result, verification_result, cleanups, sub_started,
                 gate_in, aborted, exc, wf_raised, close_raised>>

\* `await asyncio.sleep(5)' (line 180), then the next iteration.
Backoff ==
  /\ mode = "executor" /\ pc = "backoff"
  /\ retry' = [retry EXCEPT !.paused = TRUE]
  /\ pc' = "loop"
  /\ UNCHANGED <<mode, cleanup_log, vision, vision_call, join_el, positioned, mcpVars, probeVars, execVarsButPc>>

\* `return result' after the loop (line 182); `result' is unbound when the
\* loop body never ran.
ReturnResult ==
  /\ mode = "executor" /\ pc = "return"
  /\ pc' = "done"
  /\ raised' = IF result.set THEN raised ELSE "UnboundLocalError"
  /\ UNCHANGED <<mode, obsVars, mcpVars, probeVars, passes, max_retries, attempt, executions, result, ctl, live, closes,
                 pub_result, sub_result, verification_result, cleanups, sub_started,
                 gate_in, aborted, exc, wf_raised, close_raised>>

NextExec ==
  \/ RetryLoopHead
  \/ PubLaunch \/ PubJoin \/ PubVerifyJoined \/ PubDropdown \/ PubOption \/ PubScreenshot
  \/ SubLaunch \/ SubJoin \/ SubVerifyJoined \/ SubScreenshot
  \/ PositionWindows \/ GateChoice \/ GateComment
  \/ CleanupStep \/ ExceptCleanup
  \/ AttemptReturned \/ RetryPrompt \/ Backoff \/ ReturnResult

\* ===================================================== PuppeteerMCPClient
NoOp == [op |-> "", browser |-> "", success |-> FALSE, error |-> <<>>,
         found |-> FALSE, clicked |-> FALSE, audio |-> FALSE, video |-> FALSE,
         verified |-> FALSE, verdict |-> "", comment |-> <<>>, read |-> {}, calls |-> <<>>,
         peer |-> ""]

\* After __init__ and initialize_webrtc_testing.
InitMcp ==
  /\ browsers = [r \in Roles |-> 0]
  /\ procs = [r \in Roles |-> {}]
  /\ launches = [r \in Roles |-> 0]
  /\ playwright = "started"
  /\ console_logs = <<>>
  /\ mcp_cleanups = 0
  /\ mcp_last = NoOp


\* launch_chrome_publisher / launch_safari_subscriber for browser id r.
\* "launch_raise": playwright.<engine>.launch raised (always so once
\* Playwright is stopped); "setup_raise": the browser process is up and a
\* later step (new_context, new_page, add_init_script, goto) raised, so the
\* registry entry is not written; "ok".  Every exception is caught.
McpLaunch(r) ==
  /\ mode = "mcp" /\ pc = "idle"
  /\ launches[r] < MaxLaunches
  /\ \E out \in ({"launch_raise", "setup_raise", "ok"}) :
       /\ playwright # "started" => out = "launch_raise"
       /\ launches' = [launches EXCEPT ![r] = @ + 1]
       /\ procs' = [procs EXCEPT ![r] = IF out = "launch_raise" THEN @
                                        ELSE @ \cup {launches[r] + 1}]
       /\ browsers' = [browsers EXCEPT ![r] = IF out = "ok" THEN launches[r] + 1 ELSE @]
       /\ mcp_last' = [NoOp EXCEPT !.op = "launch", !.browser = r,
                                   !.success = (out = "ok"),
                                   !.error = IF out = "ok" THEN <<>> ELSE <<out>>]
  /\ UNCHANGED <<mode, obsVars, probeVars, execVars, playwright, console_logs, mcp_cleanups>>

LaunchChromePublisher == McpLaunch("chrome")

LaunchSafariSubscriber == McpLaunch("safari")


\* _handle_console_log: a page that is up emits a console message.  Both
\* pages register the same bound method (lines 126 and 236), which appends
\* to the one list self.console_logs.  The entry the code builds holds
\* type, text, timestamp and location; `page' is not stored by the code:
\* it records here which page's listener fired.
HandleConsoleLog ==
  /\ mode = "mcp" /\ pc = "idle"
  /\ Len(console_logs) < MaxConsoleEvents
  /\ \E r \in Roles :
       /\ procs[r] # {}
       /\ \E t \in ({ <<"P", "u", "b", "l", "i", "s", "h", "i", "n", "g", " ", "s", "t", "a", "r", "t", "e", "d">>, <<"h", "e", "l", "l", "o">> }) :
            console_logs' = Append(console_logs, [type |-> "log", text |-> t, page |-> r])
  /\ UNCHANGED <<mode, obsVars, probeVars, execVars, browsers, procs, launches, playwright,
                 mcp_cleanups, mcp_last>>

\* self.console_logs[-n:]
LastN(logs, n) ==
  IF Len(logs) <= n THEN logs ELSE SubSeq(logs, Len(logs) - n + 1, Len(logs))

PublishLogWindow == 50

publishing_keywords ==
  << <<"p", "u", "b", "l", "i", "s", "h">>,
     <<"p", "u", "b", "l", "i", "s", "h", "i", "n", "g">>,
     <<"s", "t", "r", "e", "a", "m">>,
     <<"s", "t", "r", "e", "a", "m", "i", "n", "g">>,
     <<"a", "u", "d", "i", "o">>,
     <<"v", "i", "d", "e", "o">>,
     <<"m", "e", "d", "i", "a">>,
     <<"w", "e", "b", "r", "t", "c">>,
     <<"p", "e", "e", "r", "c", "o", "n", "n", "e", "c", "t", "i", "o", "n">>,
     <<"o", "f", "f", "e", "r">>,
     <<"a", "n", "s", "w", "e", "r">>,
     <<"i", "c", "e">>,
     <<"g", "e", "t", "U", "s", "e", "r", "M", "e", "d", "i", "a">>,
     <<"l", "o", "c", "a", "l", "S", "t", "r", "e", "a", "m">>,
     <<"t", "r", "a", "c", "k">>,
     <<"s", "e", "n", "d", "e", "r">>,
     <<"c", "o", "n", "n", "e", "c", "t", "e", "d">> >>

EvalOutcomes == {"hit", "miss", "raise"}
PageProbes == [page_logs : EvalOutcomes, webrtc : EvalOutcomes,
               ui : EvalOutcomes, net : EvalOutcomes]

\* verify_audio_publishing.  page says, for each page.evaluate of the
\* method, whether its result shows the indicator, does not, or the
\* evaluation raised.
\* Lines 1126, 1146-1150: does one of the last 50 captured console entries
\* contain a publishing keyword (the text is lower-cased, the keywords are not)?

captured_publishing_log(logs) ==
  LET recent == LastN(logs, PublishLogWindow) IN
    \E i \in DOMAIN recent :
      \E low \in { Lower(recent[i].text) } :
        \E k \in DOMAIN publishing_keywords : Contains(low, publishing_keywords[k])

verify_audio_publishing(captured_hit, page) ==
  IF page.page_logs = "raise" THEN TRUE          \* outer except: return True
  ELSE IF captured_hit THEN TRUE
  ELSE IF page.page_logs = "hit" THEN TRUE
  ELSE IF page.webrtc = "hit" THEN TRUE
  ELSE IF page.ui = "hit" THEN TRUE
  ELSE IF page.net = "hit" THEN TRUE
  ELSE TRUE                                      \* optimistic default

\* Variant of publish_audio_stream whose success test leaves out the video flag.
publish_audio_stream_audio_only(registered, id, found, click_ok, audio, video, verified) ==
  IF ~registered THEN [success |-> FALSE, error |-> <<"Browser ", id, " not found">>]
  ELSE IF ~found THEN [success |-> FALSE, error |-> <<"Publish dropdown button not found">>]
  ELSE IF ~click_ok THEN [success |-> FALSE, error |-> <<"Timeout 30000ms exceeded.">>]
  ELSE IF audio /\ verified THEN [success |-> TRUE, error |-> <<>>]
  ELSE [success |-> FALSE,
        error |-> <<"Publishing failed - Audio: ", PyBool(audio), ", Video: ",
                    PyBool(video), ", Verified: ", PyBool(verified)>>]

\* publish_audio_stream: what it returns, given whether the browser id is in
\* the registry, whether find_publish_button_adaptive found the control,
\* whether its click() returned, and the three flags.
publish_audio_stream(registered, id, found, click_ok, audio, video, verified) ==
  IF ~registered THEN [success |-> FALSE, error |-> <<"Browser ", id, " not found">>]
  ELSE IF ~found THEN [success |-> FALSE, error |-> <<"Publish dropdown button not found">>]
  ELSE IF ~click_ok THEN [success |-> FALSE, error |-> <<"Timeout 30000ms exceeded.">>]
  ELSE IF audio /\ video /\ verified THEN [success |-> TRUE, error |-> <<>>]
  ELSE [success |-> FALSE,
        error |-> <<"Publishing failed - Audio: ", PyBool(audio), ", Video: ",
                    PyBool(video), ", Verified: ", PyBool(verified)>>]

\* Variant of publish_audio_stream_calls that gives up after a failed audio option.
publish_audio_stream_calls_short(registered, found, click_ok, audio) ==
  IF ~registered THEN <<>>
  ELSE IF ~found THEN <<"find_publish_button_adaptive">>
  ELSE IF ~click_ok THEN <<"find_publish_button_adaptive", "click">>
  ELSE IF ~audio
    THEN <<"find_publish_button_adaptive", "click", "click_publish_audio_option">>
  ELSE <<"find_publish_button_adaptive", "click", "click_publish_audio_option",
         "click_publish_video_option", "verify_audio_publishing">>

\* publish_audio_stream, lines 414-440: the calls it makes on the page, in
\* order.  The two option methods and the probe catch what their page calls
\* raise and return a boolean, so the three calls follow a click that returned.
publish_audio_stream_calls(registered, found, click_ok, audio) ==
  IF ~registered THEN <<>>
  ELSE IF ~found THEN <<"find_publish_button_adaptive">>
  ELSE IF ~click_ok THEN <<"find_publish_button_adaptive", "click">>
  ELSE <<"find_publish_button_adaptive", "click", "click_publish_audio_option",
         "click_publish_video_option", "verify_audio_publishing">>

\* The handler with its inputs as they arise: later inputs exist only when
\* the earlier steps let the code reach them.
PublishReturn(id, found, click_ok, audio, video, verified, read) ==
  LET ret == publish_audio_stream(browsers[id] # 0, id, found, click_ok,
                                  audio, video, verified)
  IN mcp_last' = [NoOp EXCEPT !.op = "publish_audio_stream", !.browser = id,
                              !.success = ret.success, !.error = ret.error,
                              !.found = found, !.clicked = click_ok, !.audio = audio,
                              !.video = video, !.verified = verified,
                              !.read = read,
                              !.calls = publish_audio_stream_calls(
                                          browsers[id] # 0, found, click_ok, audio)]

PublishAudioStream ==
  /\ mode = "mcp" /\ pc = "idle"
  /\ \E id \in Roles :
       IF browsers[id] = 0
         THEN PublishReturn(id, FALSE, FALSE, FALSE, FALSE, FALSE, {})
         ELSE \E found \in BOOLEAN :
           IF ~found
             THEN PublishReturn(id, FALSE, FALSE, FALSE, FALSE, FALSE, {})
             ELSE \E click_ok \in BOOLEAN :
               IF ~click_ok
                 THEN PublishReturn(id, TRUE, FALSE, FALSE, FALSE, FALSE, {})
                 ELSE \E hit \in { captured_publishing_log(console_logs) } :
                        \E verified \in { verify_audio_publishing(hit, page) :
                                            page \in PageProbes } :
                          \E audio \in BOOLEAN, video \in BOOLEAN :
                            PublishReturn(id, TRUE, TRUE, audio, video, verified,
                                          { LastN(console_logs, PublishLogWindow)[i].page :
                                              i \in DOMAIN LastN(console_logs, PublishLogWindow) })
  /\ UNCHANGED <<mode, obsVars, probeVars, execVars, browsers, procs, launches, playwright,
                 console_logs, mcp_cleanups>>

\* conduct_manual_verification: the choice prompt (line 534).  Only
\* `except Exception' surrounds it, so KeyboardInterrupt is not caught.
manual_on_choice(inp) ==
  IF inp.kind = "KeyboardInterrupt" THEN [next |-> "raise", ret |-> NoOp]
  ELSE IF inp.kind = "EOFError"
    THEN [next |-> "return",
          ret |-> [NoOp EXCEPT !.error = <<"EOF when reading a line">>]]
  ELSE LET user_input == Strip(Upper(inp.text)) IN
    IF user_input = <<"P">>
      THEN [next |-> "return", ret |-> [NoOp EXCEPT !.success = TRUE, !.verdict = "PASSED"]]
    ELSE IF user_input = <<"F">> THEN [next |-> "comment", ret |-> NoOp]
    ELSE IF user_input = <<"R">>
      THEN [next |-> "return", ret |-> [NoOp EXCEPT !.verdict = "RETRY"]]
    ELSE [next |-> "reprompt", ret |-> NoOp]

\* conduct_manual_verification: the comment prompt after 'F' (line 545).
manual_on_comment(inp) ==
  IF inp.kind = "KeyboardInterrupt" THEN [next |-> "raise", ret |-> NoOp]
  ELSE IF inp.kind = "EOFError"
    THEN [next |-> "return",
          ret |-> [NoOp EXCEPT !.error = <<"EOF when reading a line">>]]
  ELSE [next |-> "return",
        ret |-> [NoOp EXCEPT !.verdict = "FAILED", !.comment = Strip(inp.text)]]

\* The call: instructions are printed and capture_screenshots runs (it
\* catches per browser); then the prompt loop.
ManualVerificationStart ==
  /\ mode = "mcp" /\ pc = "idle"
  /\ pc' = "manual_choice"
  /\ mcp_last' = [NoOp EXCEPT !.op = "conduct_manual_verification"]
  /\ UNCHANGED <<mode, obsVars, probeVars, max_retries, attempt, executions, passes, result, ctl, live,
                 closes, pub_result, sub_result, verification_result, cleanups,
                 sub_started, gate_in, aborted, exc, wf_raised, raised, close_raised,
                 browsers, procs, launches, playwright, console_logs, mcp_cleanups>>

\* One input() of the loop, at the choice prompt or at the comment prompt.
ManualStep(prompt, lines) ==
  \E inp \in InputsOf(lines) :
    LET m == IF prompt = "choice" THEN manual_on_choice(inp)
                                  ELSE manual_on_comment(inp) IN
      CASE m.next = "raise" ->
             /\ raised' = inp.kind
             /\ pc' = "unwinding"
             /\ UNCHANGED mcp_last
        [] m.next = "return" ->
             /\ mcp_last' = [m.ret EXCEPT !.op = "conduct_manual_verification"]
             /\ pc' = "idle"
             /\ UNCHANGED raised
        [] m.next = "comment" -> pc' = "manual_comment" /\ UNCHANGED <<raised, mcp_last>>
        [] m.next = "reprompt" -> UNCHANGED <<pc, raised, mcp_last>>

ManualChoice ==
  /\ mode = "mcp" /\ pc = "manual_choice"
  /\ ManualStep("choice", ChoiceLines)
  /\ UNCHANGED <<mode, obsVars, probeVars, max_retries, attempt, executions, passes, result, ctl, live,
                 closes, pub_result, sub_result, verification_result, cleanups,
                 sub_started, gate_in, aborted, exc, wf_raised, close_raised,
                 browsers, procs, launches, playwright, console_logs, mcp_cleanups>>

ManualComment ==
  /\ mode = "mcp" /\ pc = "manual_comment"
  /\ ManualStep("comment", CommentLines)
  /\ UNCHANGED <<mode, obsVars, probeVars, max_retries, attempt, executions, passes, result, ctl, live,
                 closes, pub_result, sub_result, verification_result, cleanups,
                 sub_started, gate_in, aborted, exc, wf_raised, close_raised,
                 browsers, procs, launches, playwright, console_logs, mcp_cleanups>>

\* ================================== PuppeteerMCPClient: connection quality
\* A state dict as get_webrtc_state / the page probes build it; a key that
\* is absent reads as its .get default (False, 0, no state).
ProbeStates ==
  [connected : BOOLEAN, streams : 0..MaxStreams, hasLocalStream : BOOLEAN,
   getUserMediaCalled : BOOLEAN, connectionState : {"", "connecting", "connected"},
   peerConnectionState : {"", "connecting"}]

NoProbeState ==
  [connected |-> FALSE, streams |-> 0, hasLocalStream |-> FALSE,
   getUserMediaCalled |-> FALSE, connectionState |-> "", peerConnectionState |-> ""]

LogWindow == 20

webrtc_keywords ==
  << <<"s", "t", "r", "e", "a", "m">>,
     <<"w", "e", "b", "r", "t", "c">>,
     <<"m", "e", "d", "i", "a">>,
     <<"c", "o", "n", "n", "e", "c", "t", "i", "o", "n">>,
     <<"n", "o", "t", "i", "f", "i", "e", "r">> >>


\* Console logs the handler can have accumulated: n entries, all plain but
\* possibly one near the old end or the newest of a full history.
LogFamily ==
  LET PlainText == <<"h", "i">>
      ActivityText == <<"S", "t", "r", "e", "a", "m", " ", "u", "p">>
  IN { [i \in 1..n |-> [type |-> "log",
                         text |-> IF i = k THEN ActivityText ELSE PlainText]] :
         n \in 0..MaxLogs, k \in {0, 1, MaxLogs - LogWindow, MaxLogs} }

\* Variant of assess_connection_quality that rates one active side as good.
assess_connection_quality_either(publisher_state, subscriber_state, logs) ==
  LET connected(st) == \/ st.connected
                       \/ st.streams > 0
                       \/ st.hasLocalStream
                       \/ st.getUserMediaCalled
      connecting(st) == \/ st.connectionState = "connecting"
                        \/ st.peerConnectionState = "connecting"
      recent_logs == LastN(logs, LogWindow)
      webrtc_activity ==
        \E i \in DOMAIN recent_logs :
          \E low \in { Lower(recent_logs[i].text) } :
            \E k \in DOMAIN webrtc_keywords : Contains(low, webrtc_keywords[k])
  IN IF connected(publisher_state) \/ connected(subscriber_state) THEN "good"
     ELSE IF connecting(publisher_state) \/ connecting(subscriber_state) THEN "fair"
     ELSE IF webrtc_activity THEN "fair"
     ELSE "poor"

\* assess_connection_quality (lines 1312-1371).
assess_connection_quality(publisher_state, subscriber_state, logs) ==
  LET connected(st) == \/ st.connected
                       \/ st.streams > 0
                       \/ st.hasLocalStream
                       \/ st.getUserMediaCalled
      connecting(st) == \/ st.connectionState = "connecting"
                        \/ st.peerConnectionState = "connecting"
      recent_logs == LastN(logs, LogWindow)
      webrtc_activity ==
        \E i \in DOMAIN recent_logs :
          \E low \in { Lower(recent_logs[i].text) } :
            \E k \in DOMAIN webrtc_keywords : Contains(low, webrtc_keywords[k])
  IN IF connected(publisher_state) /\ connected(subscriber_state) THEN "good"
     ELSE IF connected(publisher_state) \/ connected(subscriber_state) THEN "fair"
     ELSE IF connecting(publisher_state) \/ connecting(subscriber_state) THEN "fair"
     ELSE IF webrtc_activity THEN "fair"
     ELSE "poor"

\* Variant of join_pine_ridge_channel that goes to the page without looking
\* the browser id up in the registry.
join_pine_ridge_channel_unchecked(registered, id, found, click_ok, joined) ==
  IF ~found
    THEN [success |-> FALSE, error |-> <<"Join button not found">>,
          calls |-> <<"debug_page_elements", "find_join_button_adaptive">>]
  ELSE IF ~click_ok
    THEN [success |-> FALSE, error |-> <<"Timeout 30000ms exceeded.">>,
          calls |-> <<"debug_page_elements", "find_join_button_adaptive", "click">>]
  ELSE [success |-> joined,
        error |-> IF joined THEN <<>> ELSE <<"Failed to verify joined state">>,
        calls |-> <<"debug_page_elements", "find_join_button_adaptive", "click",
                    "verify_joined_state">>]

\* join_pine_ridge_channel (lines 346-404): what it returns and the calls it
\* makes on the page, given whether the browser id is in the registry,
\* whether find_join_button_adaptive found a button, whether its click()
\* returned and what verify_joined_state said.
join_pine_ridge_channel(registered, id, found, click_ok, joined) ==
  IF ~registered
    THEN [success |-> FALSE, error |-> <<"Browser ", id, " not found">>, calls |-> <<>>]
  ELSE IF ~found
    THEN [success |-> FALSE, error |-> <<"Join button not found">>,
          calls |-> <<"debug_page_elements", "find_join_button_adaptive">>]
  ELSE IF ~click_ok
    THEN [success |-> FALSE, error |-> <<"Timeout 30000ms exceeded.">>,
          calls |-> <<"debug_page_elements", "find_join_button_adaptive", "click">>]
  ELSE [success |-> joined,
        error |-> IF joined THEN <<>> ELSE <<"Failed to verify joined state">>,
        calls |-> <<"debug_page_elements", "find_join_button_adaptive", "click",
                    "verify_joined_state">>]

\* The handler with its inputs as they arise.
JoinPineRidgeChannel ==
  /\ mode = "mcp" /\ pc = "idle"
  /\ \E id \in Roles :
       \E found \in BOOLEAN, click_ok \in BOOLEAN, joined \in BOOLEAN :
         /\ (browsers[id] = 0 \/ ~found) => ~click_ok
         /\ ~click_ok => ~joined
         /\ browsers[id] = 0 => ~found
         /\ LET ret == join_pine_ridge_channel(browsers[id] # 0, id, found, click_ok, joined)
            IN mcp_last' = [NoOp EXCEPT !.op = "join_pine_ridge_channel", !.browser = id,
                                        !.success = ret.success, !.error = ret.error,
                                        !.found = found, !.clicked = click_ok,
                                        !.verified = joined, !.calls = ret.calls]
  /\ UNCHANGED <<mode, obsVars, probeVars, execVars, browsers, procs, launches, playwright,
                 console_logs, mcp_cleanups>>

\* verify_webrtc_connection (lines 469-508) for the ids publisher and
\* subscriber; pub_state and sub_state are what get_webrtc_state returns
\* for the two pages.
verify_webrtc_connection(registered, pub_state, sub_state, logs) ==
  IF ~registered
    THEN [success |-> FALSE, error |-> <<"Required browsers not found">>,
          calls |-> <<>>, connection_quality |-> ""]
  ELSE LET connection_quality == assess_connection_quality(pub_state, sub_state, logs)
       IN [success |-> connection_quality \in {"good", "fair"}, error |-> <<>>,
           calls |-> <<"get_webrtc_state", "get_webrtc_state">>,
           connection_quality |-> connection_quality]

VerifyWebrtcConnection ==
  /\ mode = "mcp" /\ pc = "idle"
  /\ \E publisher \in Roles, subscriber \in Roles :
       \E ps \in {NoProbeState, [NoProbeState EXCEPT !.connected = TRUE]},
          ss \in {NoProbeState, [NoProbeState EXCEPT !.connected = TRUE]} :
         /\ (browsers[publisher] = 0 \/ browsers[subscriber] = 0)
               => (ps = NoProbeState /\ ss = NoProbeState)
         /\ LET ret == verify_webrtc_connection(
                          browsers[publisher] # 0 /\ browsers[subscriber] # 0,
                          ps, ss, console_logs)
            IN mcp_last' = [NoOp EXCEPT !.op = "verify_webrtc_connection",
                                        !.browser = publisher, !.peer = subscriber,
                                        !.success = ret.success, !.error = ret.error,
                                        !.verdict = ret.connection_quality,
                                        !.calls = ret.calls]
  /\ UNCHANGED <<mode, obsVars, probeVars, execVars, browsers, procs, launches, playwright,
                 console_logs, mcp_cleanups>>

CloseOutcomes == {"ok", "raise"}

\* PuppeteerMCPClient.cleanup.  cl[r] is what browser.close() does for the
\* registered browser of id r, st what playwright.stop() does; both calls
\* sit in their own try/except.  Stopping Playwright ends its driver, and
\* with it every browser process the driver launched.
mcp_cleanup(reg, pr, pw, cl, st) ==
  LET closed(r) == IF reg[r] # 0 /\ cl[r] = "ok" THEN pr[r] \ {reg[r]} ELSE pr[r]
  IN [browsers |-> [r \in Roles |-> 0],
      procs |-> IF st = "ok" THEN [r \in Roles |-> {}] ELSE [r \in Roles |-> closed(r)],
      playwright |-> IF st = "ok" THEN "stopped" ELSE pw,
      raised |-> FALSE]

McpCleanup ==
  /\ mode = "mcp" /\ pc \in {"idle", "unwinding"}
  /\ mcp_cleanups < MaxCleanups
  /\ \E cl \in [Roles -> CloseOutcomes], st \in CloseOutcomes :
       LET c == mcp_cleanup(browsers, procs, playwright, cl, st) IN
         /\ browsers' = c.browsers
         /\ procs' = c.procs
         /\ playwright' = c.playwright
         /\ close_raised' = (close_raised \/ c.raised)
  /\ mcp_cleanups' = mcp_cleanups + 1
  /\ mcp_last' = [NoOp EXCEPT !.op = "cleanup"]
  /\ pc' = IF pc = "unwinding" THEN "done" ELSE pc
  /\ UNCHANGED <<mode, obsVars, probeVars, max_retries, attempt, executions, passes, result, ctl, live,
                 closes, pub_result, sub_result, verification_result, cleanups,
                 sub_started, gate_in, aborted, exc, wf_raised, raised,
                 launches, console_logs>>

NextMcp ==
  \/ LaunchChromePublisher \/ LaunchSafariSubscriber
  \/ HandleConsoleLog
  \/ JoinPineRidgeChannel \/ PublishAudioStream \/ VerifyWebrtcConnection
  \/ ManualVerificationStart \/ ManualChoice \/ ManualComment
  \/ McpCleanup

\* ==================== PuppeteerMCPClient: connection quality, the call
AssessConnectionQuality ==
  /\ mode = "probe" /\ pc = "assess"
  /\ quality' = assess_connection_quality(probe_in.pub, probe_in.sub, console_logs)
  /\ pc' = "assessed"
  /\ UNCHANGED <<mode, obsVars, max_retries, attempt, executions, passes, result, ctl, live,
                 closes, pub_result, sub_result, verification_result, cleanups,
                 sub_started, gate_in, aborted, exc, wf_raised, raised, close_raised,
                 mcpVars, obsVars, probe_in, res_in, res_out>>

InitProbeIdle ==
  /\ probe_in = [pub |-> NoProbeState, sub |-> NoProbeState]
  /\ quality = ""
  /\ res_in = NoCall
  /\ res_out = NoReturn

\* ====================================== element resolvers and state probes
ClickElementSelenium ==
  /\ mode = "ladder" /\ pc = "call" /\ res_in.op = "_click_element_selenium"
  /\ res_out' = [op |-> res_in.op, selectors |-> selectors_for(res_in.description)]
                   @@ click_element_selenium(res_in.outs)
  /\ pc' = "returned"
  /\ UNCHANGED <<mode, execVarsButPc, mcpVars, obsVars, probe_in, quality, res_in>>

WaitForElementSelenium ==
  /\ mode = "ladder" /\ pc = "call" /\ res_in.op = "_wait_for_element_selenium"
  /\ res_out' = [op |-> res_in.op]
                   @@ wait_for_element_selenium(res_in.description, res_in.outs)
  /\ pc' = "returned"
  /\ UNCHANGED <<mode, execVarsButPc, mcpVars, obsVars, probe_in, quality, res_in>>

\* A call of _wait_for_element_selenium with one of the descriptions.
WaitCall ==
  \E d \in Descriptions :
    \E o \in [1..Len(wait_selectors_for(d)) -> {"timeout", "found", "raise"}] :
      res_in = [op |-> "_wait_for_element_selenium", description |-> d, outs |-> o]

\* A call of _click_element_selenium with one of the descriptions, on a
\* page where each selector behaves in one of the three ways.
SeleniumCall ==
  \E d \in Descriptions :
    \E o \in [1..Len(selectors_for(d)) -> SeleniumSteps] :
      res_in = [op |-> "_click_element_selenium", description |-> d, outs |-> o]

\* click_publish_audio_option / click_publish_video_option: the option lists.
audio_options ==
  << "button:has-text(\"Publish Audio\")",
     "button:has-text(\"Audio\")",
     "button:has-text(\"Start Audio\")",
     "button:has-text(\"Enable Audio\")",
     "[role=\"menuitem\"]:has-text(\"Publish Audio\")",
     "[role=\"menuitem\"]:has-text(\"Audio\")",
     "a:has-text(\"Publish Audio\")",
     "a:has-text(\"Audio\")" >>

video_options ==
  << "button:has-text(\"Publish Video\")",
     "button:has-text(\"Video\")",
     "button:has-text(\"Start Video\")",
     "button:has-text(\"Enable Video\")",
     "[role=\"menuitem\"]:has-text(\"Publish Video\")",
     "[role=\"menuitem\"]:has-text(\"Video\")",
     "a:has-text(\"Publish Video\")",
     "a:has-text(\"Video\")" >>

\* One locator of a ladder.  "invisible": is_visible() returned False;
\* "clicked": it returned True and click() returned; "raise": the locator,
\* is_visible() or click() raised.
OptionSteps == {"invisible", "clicked", "raise"}

\* The fallback (lines 949-975): the page.evaluate that lists the matching
\* button texts, then one locator per text.
Fallbacks ==
  { [eval |-> "raise", buttons |-> <<>>] }
    \cup { [eval |-> "ok", buttons |-> b] :
              b \in UNION { [1..n -> OptionSteps] : n \in 0..MaxButtons } }

\* The `for option in ...' loop: a click returns True at once, anything
\* else goes on to the next locator.  Entries are numbered from base + 1.
RECURSIVE option_ladder(_, _, _, _, _)
option_ladder(outs, i, base, tried, clicked) ==
  IF i > Len(outs) THEN [tried |-> tried, clicked |-> clicked, ok |-> FALSE]
  ELSE IF outs[i] = "clicked"
    THEN [tried |-> Append(tried, base + i), clicked |-> Append(clicked, base + i),
          ok |-> TRUE]
  ELSE option_ladder(outs, i + 1, base, Append(tried, base + i), clicked)

\* Variant of click_publish_option that runs the fallback after a click too.
click_publish_option_all(options, outs, fb) ==
  LET first == option_ladder(outs, 1, 0, <<>>, <<>>) IN
    IF fb.eval = "raise" THEN first @@ [fallback |-> TRUE]
    ELSE [option_ladder(fb.buttons, 1, Len(options), first.tried, first.clicked)
            EXCEPT !.ok = @ \/ first.ok] @@ [fallback |-> TRUE]

\* click_publish_audio_option (lines 920-982) and click_publish_video_option
\* (lines 984-1046) for a list of options.
click_publish_option(options, outs, fb) ==
  LET first == option_ladder(outs, 1, 0, <<>>, <<>>) IN
    IF first.ok THEN first @@ [fallback |-> FALSE]
    ELSE IF fb.eval = "raise" THEN first @@ [fallback |-> TRUE]
    ELSE option_ladder(fb.buttons, 1, Len(options), first.tried, first.clicked)
           @@ [fallback |-> TRUE]

ClickPublishAudioOption ==
  /\ mode = "ladder" /\ pc = "call" /\ res_in.op = "click_publish_audio_option"
  /\ res_out' = [op |-> res_in.op]
                   @@ click_publish_option(audio_options, res_in.outs, res_in.fb)
  /\ pc' = "returned"
  /\ UNCHANGED <<mode, execVarsButPc, mcpVars, obsVars, probe_in, quality, res_in>>

ClickPublishVideoOption ==
  /\ mode = "ladder" /\ pc = "call" /\ res_in.op = "click_publish_video_option"
  /\ res_out' = [op |-> res_in.op]
                   @@ click_publish_option(video_options, res_in.outs, res_in.fb)
  /\ pc' = "returned"
  /\ UNCHANGED <<mode, execVarsButPc, mcpVars, obsVars, probe_in, quality, res_in>>

OptionCall ==
  \/ \E o \in [1..Len(audio_options) -> OptionSteps], f \in Fallbacks :
       res_in = [op |-> "click_publish_audio_option", outs |-> o, fb |-> f]
  \/ \E o \in [1..Len(video_options) -> OptionSteps], f \in Fallbacks :
       res_in = [op |-> "click_publish_video_option", outs |-> o, fb |-> f]

\* find_join_button_adaptive (lines 701-807), strategy by strategy.  For the
\* three locator strategies: "visible" - one of its candidates passed
\* is_visible() (and the text test) and is returned; "none" - no candidate
\* did; "raise" - its calls raised and were caught.  The last strategy asks
\* the page for the largest button with a non-empty box: "shown" / "hidden"
\* say whether that element would pass is_visible().

find_join_button_adaptive(st) ==
  IF st.s1 = "visible" THEN [tried |-> <<1>>, returned |-> 1, visible |-> TRUE]
  ELSE IF st.s2 = "visible" THEN [tried |-> <<1, 2>>, returned |-> 2, visible |-> TRUE]
  ELSE IF st.s3 = "visible" THEN [tried |-> <<1, 2, 3>>, returned |-> 3, visible |-> TRUE]
  ELSE IF st.s4 \in {"shown", "hidden"}
    THEN [tried |-> <<1, 2, 3, 4>>, returned |-> 4, visible |-> st.s4 = "shown"]
  ELSE [tried |-> <<1, 2, 3, 4>>, returned |-> 0, visible |-> FALSE]

FindJoinButtonAdaptive ==
  /\ mode = "ladder" /\ pc = "call" /\ res_in.op = "find_join_button_adaptive"
  /\ res_out' = [op |-> res_in.op] @@ find_join_button_adaptive(res_in.st)
  /\ pc' = "returned"
  /\ UNCHANGED <<mode, execVarsButPc, mcpVars, obsVars, probe_in, quality, res_in>>

JoinCall ==
  \E st \in ([s1 : {"none", "visible", "raise"}, s2 : {"none", "visible", "raise"}, s3 : {"none", "visible", "raise"}, s4 : {"none", "raise", "shown", "hidden"}]) : res_in = [op |-> "find_join_button_adaptive", st |-> st]

\* verify_joined_state: the indicator locators (lines 1055-1062).
joined_indicators ==
  << "text=joined",
     "[data-state=\"joined\"]",
     ".joined-state",
     ".channel-joined",
     "button:has-text(\"Leave\")",
     "button:has-text(\"Publish\")" >>

LocatorSteps == {"invisible", "visible", "raise"}

\* verify_joined_state (lines 1048-1117).  ind[i], channel, publish: what
\* the locator of that strategy does; count: the button count evaluation
\* raised, returned at most 20, or more.  Every locator sits in its own
\* try; the outer handler returns True as well.
verify_joined_state(ind, channel, publish, count) ==
  [raised |-> FALSE,
   value |-> IF \E i \in DOMAIN ind : ind[i] = "visible" THEN TRUE
             ELSE IF channel = "visible" THEN TRUE
             ELSE IF publish = "visible" THEN TRUE
             ELSE IF count = "many" THEN TRUE
             ELSE TRUE]

VerifyJoinedState ==
  /\ mode = "ladder" /\ pc = "call" /\ res_in.op = "verify_joined_state"
  /\ res_out' = [op |-> res_in.op]
                   @@ verify_joined_state(res_in.ind, res_in.channel, res_in.publish,
                                          res_in.count)
  /\ pc' = "returned"
  /\ UNCHANGED <<mode, execVarsButPc, mcpVars, obsVars, probe_in, quality, res_in>>

JoinedCall ==
  \E i \in [1..Len(joined_indicators) -> LocatorSteps], c \in LocatorSteps,
     p \in LocatorSteps, n \in ({"raise", "few", "many"}) :
    res_in = [op |-> "verify_joined_state", ind |-> i, channel |-> c, publish |-> p,
              count |-> n]

\* verify_audio_publishing as a call of its own.
VerifyAudioPublishing ==
  /\ mode = "ladder" /\ pc = "call" /\ res_in.op = "verify_audio_publishing"
  /\ res_out' = [op |-> res_in.op, raised |-> FALSE,
                  value |-> verify_audio_publishing(res_in.captured_hit, res_in.page)]
  /\ pc' = "returned"
  /\ UNCHANGED <<mode, execVarsButPc, mcpVars, obsVars, probe_in, quality, res_in>>

PublishingCall ==
  \E h \in BOOLEAN, pg \in PageProbes :
    res_in = [op |-> "verify_audio_publishing", captured_hit |-> h, page |-> pg]

\* get_webrtc_state: what the page.evaluate hands back.
NegativeState == [connected |-> FALSE, streams |-> 0]


\* Variant of get_webrtc_state without the exception handler.
get_webrtc_state_unhandled(ev) ==
  IF ev.kind = "raise" THEN [raised |-> TRUE, value |-> NegativeState]
  ELSE [raised |-> FALSE, value |-> ev.state]

\* get_webrtc_state (lines 1289-1310).
get_webrtc_state(ev) ==
  IF ev.kind = "raise" THEN [raised |-> FALSE, value |-> NegativeState]
  ELSE [raised |-> FALSE, value |-> ev.state]

GetWebrtcState ==
  /\ mode = "ladder" /\ pc = "call" /\ res_in.op = "get_webrtc_state"
  /\ res_out' = [op |-> res_in.op] @@ get_webrtc_state(res_in.ev)
  /\ pc' = "returned"
  /\ UNCHANGED <<mode, execVarsButPc, mcpVars, obsVars, probe_in, quality, res_in>>

WebrtcCall == \E e \in ({ [kind |-> "raise", state |-> NegativeState] } \cup { [kind |-> "ok", state |-> st] : st \in [connected : BOOLEAN, streams : 0..MaxStreams] }) : res_in = [op |-> "get_webrtc_state", ev |-> e]


\* ------------------------------------ BrowserController.computer_use_action
\* One call of computer_use_action: the instruction, what the screen grab,
\* the vision request and the error screen grab do.
ComputerUseAction ==
  /\ mode = "ladder" /\ pc = "call" /\ res_in.op = "computer_use_action"
  /\ LET v == computer_use_action(is_click_action(res_in.instruction),
                                  res_in.grab, res_in.reply, res_in.errshot) IN
       res_out' = [op |-> res_in.op, outcome |-> v, success |-> (v = "found")]
  /\ pc' = "returned"
  /\ UNCHANGED <<mode, execVarsButPc, mcpVars, obsVars, probe_in, quality, res_in>>

VisionCall ==
  \E i \in {joined_prompt, click_stop_instruction, click_option_instruction},
     g \in GrabOutcomes, r \in VisionAnswers, e \in GrabOutcomes :
    res_in = [op |-> "computer_use_action", instruction |-> i,
              grab |-> g, reply |-> r, errshot |-> e]

\* ------------------------------------------------- main and the reporting
\* What `await claude_agent.execute_test_case(...)' (main.py line 84) hands
\* to main: it returns a result, raises, or the operator interrupts it.
\* Of the result, overall_status is what main and the report read;
\* report_ok says whether the per-phase fields only the report reads
\* (publisher_result, ..., verification_result) can be read as it reads them.
RunOutcomes ==
  { [kind |-> "returned", result |-> r] :
      r \in [overall_status : {"PASSED", "FAILED"}, report_ok : BOOLEAN] }
    \cup { [kind |-> k, result |-> [overall_status |-> "", report_ok |-> FALSE]] :
              k \in {"raise", "interrupt"} }

NoTestRailResult == [status |-> "", comment |-> ""]

\* format_webrtc_result (lines 56-90): the status is copied from the
\* result; any exception while the log is built yields status FAILED.
format_webrtc_result(execution_result) ==
  IF execution_result.report_ok
    THEN [status |-> execution_result.overall_status, comment |-> "WebRTC Test Execution Log"]
    ELSE [status |-> "FAILED", comment |-> "Result formatting error"]

\* execute_test_case_with_reporting (lines 29-54): formats and prints; the
\* result it was given is only read.
execute_test_case_with_reporting(execution_result) ==
  [testrail |-> format_webrtc_result(execution_result), result |-> execution_result,
   raised |-> FALSE]

\* Variant of main that takes the exit status from the reporting result.
main_by_report(run) ==
  IF run.kind = "interrupt"
    THEN [exit |-> 130, testrail |-> NoTestRailResult, result |-> run.result,
          report_raised |-> FALSE]
  ELSE IF run.kind = "raise"
    THEN [exit |-> 1, testrail |-> NoTestRailResult, result |-> run.result,
          report_raised |-> FALSE]
  ELSE LET r == execute_test_case_with_reporting(run.result) IN
    [exit |-> IF r.testrail.status = "PASSED" THEN 0 ELSE 1,
     testrail |-> r.testrail, result |-> r.result, report_raised |-> r.raised]

\* main (lines 43-129): the value handed to sys.exit.
main(run) ==
  IF run.kind = "interrupt"
    THEN [exit |-> 130, testrail |-> NoTestRailResult, result |-> run.result,
          report_raised |-> FALSE]
  ELSE IF run.kind = "raise"
    THEN [exit |-> 1, testrail |-> NoTestRailResult, result |-> run.result,
          report_raised |-> FALSE]
  ELSE LET r == execute_test_case_with_reporting(run.result) IN
    [exit |-> IF r.result.overall_status = "PASSED" THEN 0 ELSE 1,
     testrail |-> r.testrail, result |-> r.result, report_raised |-> r.raised]

Main ==
  /\ mode = "ladder" /\ pc = "call" /\ res_in.op = "main"
  /\ res_out' = [op |-> res_in.op] @@ main(res_in.run)
  /\ pc' = "returned"
  /\ UNCHANGED <<mode, execVarsButPc, mcpVars, obsVars, probe_in, quality, res_in>>

MainCall == \E run \in RunOutcomes : res_in = [op |-> "main", run |-> run]

\* mode "executor": retry_test_execution(max_retries) is called on a fresh
\* TestExecutor; mode "mcp": a fresh, initialised PuppeteerMCPClient.
Init ==
  /\ \/ mode = "executor" /\ pc = "loop" /\ max_retries \in 0..MaxRetriesBound
     \/ mode = "mcp" /\ pc = "idle" /\ max_retries = 0
  /\ InitExec
  /\ InitMcp
  /\ InitProbeIdle

Next == NextExec \/ NextMcp

Spec == Init /\ [][Next]_vars

\* The orchestrator under an operator who does not keep a prompt waiting
\* for ever: some step of retry_test_execution is taken whenever one can be.
\* At the verification prompt the number of 'r' / invalid answers is bounded
\* by MaxReprompts; at the retry prompt an answer that is neither yes nor no
\* leaves the state as it is, so the next step there is an answer.
SpecFair == Spec /\ WF_vars(NextExec)

\* mode "probe": assess_connection_quality is about to be called with two
\* state dicts on a client whose console log has some history.
InitProbe ==
  /\ mode = "probe" /\ pc = "assess" /\ max_retries = 0
  /\ InitExec
  /\ browsers = [r \in Roles |-> 0]
  /\ procs = [r \in Roles |-> {}]
  /\ launches = [r \in Roles |-> 0]
  /\ playwright = "started"
  /\ console_logs \in LogFamily
  /\ mcp_cleanups = 0
  /\ mcp_last = NoOp
  /\ probe_in \in [pub : ProbeStates, sub : ProbeStates]
  /\ quality = ""
  /\ res_in = NoCall
  /\ res_out = NoReturn

NextProbe == AssessConnectionQuality

SpecProbe == InitProbe /\ [][NextProbe]_vars

\* mode "ladder": one resolver or probe method is about to be called on a
\* page that behaves in one of the ways drawn here.
InitLadder ==
  /\ mode = "ladder" /\ pc = "call" /\ max_retries = 0
  /\ InitExec
  /\ InitMcp
  /\ probe_in = [pub |-> NoProbeState, sub |-> NoProbeState]
  /\ quality = ""
  /\ \/ SeleniumCall \/ WaitCall \/ OptionCall \/ JoinCall
     \/ JoinedCall \/ PublishingCall \/ WebrtcCall
     \/ VisionCall \/ MainCall
  /\ res_out = NoReturn

NextLadder ==
  \/ ClickElementSelenium
  \/ WaitForElementSelenium
  \/ ClickPublishAudioOption \/ ClickPublishVideoOption
  \/ FindJoinButtonAdaptive
  \/ VerifyJoinedState \/ VerifyAudioPublishing \/ GetWebrtcState
  \/ ComputerUseAction
  \/ Main

SpecLadder == InitLadder /\ [][NextLadder]_vars

\* ================================================================ claims
PubPcs == {"pub_launch", "pub_join", "pub_verify", "pub_dropdown", "pub_option", "pub_shot"}
SubPcs == {"sub_launch", "sub_join", "sub_verify", "sub_shot"}

\* C1: for every maximum N >= 1 execute_c107928 runs at most N times, the
\* attempt counter (and the number of runs) only increases, and when no
\* attempt passed the TestResult that is returned has passed = false.
ThmC1 ==
  /\ [](max_retries >= 1 =>
          /\ executions <= max_retries
          /\ attempt < max_retries
          /\ (pc = "done" => raised = "" /\ result.set)
          /\ (pc = "done" /\ passes = 0 => ~result.passed))
  /\ [][attempt' >= attempt /\ executions' >= executions]_vars

\* The whole budget was used and no attempt passed.
WitC1 ==
  /\ pc = "done" /\ max_retries >= 2 /\ executions = max_retries
  /\ passes = 0 /\ result.set /\ ~result.passed

\* C2 (as claimed): whenever an attempt has returned, cleanup_browsers ran
\* in that attempt.
CxC2 == pc = "attempt_returned" => cleanups >= 1

\* C3: the subscriber workflow starts only after the publisher workflow
\* returned success; after a publisher failure it is never started, the
\* attempt's TestResult is failed and carries the publisher's error, and the
\* attempt is one of the at most max_retries attempts.
ThmC3 ==
  /\ sub_started => pub_result.set /\ pub_result.success
  /\ pc \in SubPcs => sub_started
  /\ (pub_result.set /\ ~pub_result.success) =>
        /\ ~sub_started
        /\ ~sub_result.set
        /\ pc \notin SubPcs \cup {"position", "gate_choice", "gate_comment", "cleanup"}
        /\ result.set /\ ~result.passed
        /\ result.error = <<"Chrome publisher setup failed: ">> \o pub_result.error
        /\ executions = attempt + 1
        /\ executions <= max_retries

\* The publisher failed after its browser was launched, in a second attempt.
WitC3 ==
  /\ pc = "attempt_returned" /\ pub_result.set /\ ~pub_result.success
  /\ ctl["chrome"].driver = executions /\ executions = 2

\* C4 (as claimed): once the operator aborted at the gate, no retry question
\* is asked and no further attempt starts.
CxC4 ==
  aborted => /\ pc \in {"cleanup", "attempt_returned", "loop", "return", "done"}
             /\ (pc = "loop" => ~range_has_next(attempt, max_retries))

\* C5 (as claimed): 'p' / 'f' followed by a comment line c returns a
\* passing / failing result whose comment is c itself.
CxC5 ==
  (pc = "cleanup" /\ gate_in.last = "line") =>
     LET ch == Strip(Lower(gate_in.choice)) IN
       /\ ch = <<"p">> => verification_result = VerificationResult(TRUE, gate_in.comment)
       /\ ch = <<"f">> => verification_result = VerificationResult(FALSE, gate_in.comment)

\* C5 (amended): 'p' / 'f' followed by a comment line c returns a passing /
\* failing result whose comment is c without its leading and trailing
\* whitespace; 'r' and unrecognised choices return nothing and re-prompt, so
\* the result depends only on the final choice and its comment, whatever the
\* number of re-prompts before it.
ThmC5 ==
  /\ pc \in {"gate_choice", "gate_comment"} => ~verification_result.set
  /\ (pc = "cleanup" /\ gate_in.last = "line") =>
       LET ch == Strip(Lower(gate_in.choice)) IN
         /\ ch \in { <<"p">>, <<"f">>, <<"q">> }
         /\ ch = <<"p">> =>
              verification_result = VerificationResult(TRUE, Strip(gate_in.comment))
         /\ ch = <<"f">> =>
              verification_result = VerificationResult(FALSE, Strip(gate_in.comment))

\* A pass entered as 'P' after two re-prompts, with a comment that strip() changes.
WitC5 ==
  /\ pc = "cleanup" /\ gate_in.last = "line" /\ gate_in.reprompts = MaxReprompts
  /\ gate_in.choice = <<"P">> /\ gate_in.comment = <<" ", "a", " ">>
  /\ verification_result = VerificationResult(TRUE, <<"a">>)

\* C7 (as claimed): an attempt starts with no driver of an earlier attempt
\* still open, and a role never has two live drivers.
CxC7 ==
  /\ pc = "pub_launch" => \A r \in Roles : live[r] = {}
  /\ \A r \in Roles : Cardinality(live[r]) <= 1

\* C6 (as claimed): an interrupted input stream at an operator prompt never
\* leaves the prompting method as an exception.
CxC6 == raised \notin Interrupts

\* C8: no call of close_browser, cleanup_browsers or PuppeteerMCPClient.cleanup
\* raises to its caller, a repeated call on the same handle included, whether
\* the earlier call succeeded or failed part-way.
ThmC8 == ~close_raised

\* close_browser ran a second time on a handle whose first quit() had raised.
WitC8 ==
  /\ mode = "executor"
  /\ Len(closes["safari"]) >= 2 /\ closes["safari"][1] # "ok"
  /\ ~close_raised

PublishFlagsText(op) ==
  <<"Publishing failed - Audio: ", PyBool(op.audio), ", Video: ", PyBool(op.video),
    ", Verified: ", PyBool(op.verified)>>

MediaActivity(st) ==
  st.connected \/ st.streams > 0 \/ st.hasLocalStream \/ st.getUserMediaCalled
Connecting(st) ==
  st.connectionState = "connecting" \/ st.peerConnectionState = "connecting"
RecentKeyword(logs) ==
  \E i \in 1..Len(logs) :
    /\ i > Len(logs) - LogWindow
    /\ \E k \in DOMAIN webrtc_keywords : Contains(Lower(logs[i].text), webrtc_keywords[k])

\* C10: 'good' when both sides show media activity; 'fair' when exactly one
\* does, or neither does but a side is connecting, or neither holds but one
\* of the last 20 console entries has a WebRTC keyword; 'poor' otherwise.
\* Publisher media with no subscriber media is 'fair'.
ThmC10 ==
  pc = "assessed" =>
    LET pm == MediaActivity(probe_in.pub)
        sm == MediaActivity(probe_in.sub)
        cn == Connecting(probe_in.pub) \/ Connecting(probe_in.sub)
        kw == RecentKeyword(console_logs)
    IN /\ (pm /\ sm) => quality = "good"
       /\ (pm # sm) => quality = "fair"
       /\ (~pm /\ ~sm /\ cn) => quality = "fair"
       /\ (~pm /\ ~sm /\ ~cn /\ kw) => quality = "fair"
       /\ (~pm /\ ~sm /\ ~cn /\ ~kw) => quality = "poor"
       /\ (pm /\ ~sm) => quality = "fair"

\* Publisher media only, rated fair.
WitC10 ==
  /\ pc = "assessed" /\ quality = "fair"
  /\ MediaActivity(probe_in.pub) /\ ~MediaActivity(probe_in.sub)
  /\ ~Connecting(probe_in.pub) /\ ~Connecting(probe_in.sub)

\* C11 (as claimed): no session workflow returns a failure because the
\* joined-state check after the join click was negative or inconclusive.
CxC11 ==
  /\ (pub_result.set /\ ~pub_result.success)
        => pub_result.error # <<"Join state not confirmed">>
  /\ (sub_result.set /\ ~sub_result.success)
        => sub_result.error # <<"Join state not confirmed">>

\* C12 (as claimed): a session workflow never raises to execute_c107928.
CxC12 == ~wf_raised

\* C13 (as claimed): every failure result of a session workflow carries a
\* screenshot path.
CxC13 ==
  /\ (pub_result.set /\ ~pub_result.success) => pub_result.screenshot
  /\ (sub_result.set /\ ~sub_result.success) => sub_result.screenshot

\* C14 (as claimed): computer_use_action never raises to its caller.
CxC14 == vision # "raise"

\* C16 (as claimed): the join click of a session workflow never succeeds on
\* an element that is not visible.
CxC16 == \A r \in Roles : join_el[r] # "hidden"

AttemptPcs ==
  PubPcs \cup SubPcs
    \cup {"position", "gate_choice", "gate_comment", "cleanup", "except", "attempt_returned"}

\* C18: every attempt after the first was preceded by a retry question
\* answered yes and by the pause; a negative answer ends the loop with the
\* failed result of the last attempt; the question is asked only after a
\* failed attempt that is not the last permitted one.
ThmC18 ==
  /\ (executions >= 2 /\ pc \in AttemptPcs)
        => retry.asked /\ retry.answer = "yes" /\ retry.paused
  /\ pc \in {"retry_prompt", "backoff"}
        => result.set /\ ~result.passed /\ attempt < max_retries - 1
  /\ retry.answer = "no"
        => /\ pc \in {"return", "done"}
           /\ result.set /\ ~result.passed
           /\ raised = ""
  /\ (pc \in {"return", "done"} /\ result.set
        /\ (result.passed \/ attempt = max_retries - 1)) => ~retry.asked

\* The operator allowed one retry and refused the next.
WitC18 ==
  /\ pc = "done" /\ retry.answer = "no" /\ executions = 2
  /\ max_retries = 3 /\ ~result.passed

\* C19: get_verification_result is entered at most once per attempt, only
\* after both workflows succeeded and the layout step ran, and before
\* cleanup; an attempt with a failed workflow has no prompt and no verdict;
\* a passing result comes from the verdict of its own attempt.
ThmC19 ==
  /\ gate_in.calls <= 1
  /\ gate_in.calls = 1
        => /\ pub_result.set /\ pub_result.success
           /\ sub_result.set /\ sub_result.success
           /\ positioned # ""
  /\ pc \in {"gate_choice", "gate_comment"} => gate_in.calls = 1 /\ cleanups = 0
  /\ verification_result.set => gate_in.calls = 1
  /\ ((pub_result.set /\ ~pub_result.success) \/ (sub_result.set /\ ~sub_result.success))
        => gate_in.calls = 0 /\ ~verification_result.set
  /\ (pc = "attempt_returned" /\ result.passed)
        => verification_result.set /\ verification_result.passed

\* The second attempt reached the gate after the first one's verdict was a fail.
WitC19 ==
  /\ pc = "gate_choice" /\ executions = 2 /\ gate_in.calls = 1
  /\ ~verification_result.set /\ result.set /\ result.comment = <<"a">>

ClickOps ==
  {"_click_element_selenium", "click_publish_audio_option", "click_publish_video_option"}

\* The steps of the ladder a click call walks, in ladder order.
LadderSteps(call) ==
  IF call.op = "_click_element_selenium" THEN [i \in 1..Len(call.outs) |-> call.outs[i]]
  ELSE [i \in 1..Len(call.outs) |-> call.outs[i]]
         \o (IF call.fb.eval = "ok" THEN [i \in 1..Len(call.fb.buttons) |-> call.fb.buttons[i]]
             ELSE <<>>)

\* C15: a click resolve clicks at most one element; if it clicks, the
\* element is the candidate of the first step in ladder order that
\* succeeds, exactly the steps up to it were attempted and none after it.
ThmC15 ==
  (pc = "returned" /\ res_out.op \in ClickOps) =>
    LET st == LadderSteps(res_in) IN
      /\ Len(res_out.clicked) <= 1
      /\ res_out.ok = (res_out.clicked # <<>>)
      /\ res_out.clicked # <<>> =>
           LET k == res_out.clicked[1] IN
             /\ st[k] = "clicked"
             /\ \A j \in 1..(k - 1) : st[j] # "clicked"
             /\ res_out.tried = [i \in 1..k |-> i]

\* The third audio option is clicked although the fifth would succeed too.
WitC15 ==
  /\ pc = "returned" /\ res_out.op = "click_publish_audio_option"
  /\ res_out.clicked = <<3>> /\ res_out.tried = <<1, 2, 3>>
  /\ res_in.outs[5] = "clicked" /\ res_in.outs[1] = "raise"

\* C17 (as claimed): a resolver that reports not-found has attempted every
\* strategy of its ladder, whatever the earlier strategies did.
CxC17 ==
  /\ (pc = "returned" /\ res_out.op \in ClickOps /\ ~res_out.ok)
        => Len(res_out.tried) = Len(LadderSteps(res_in))
  /\ (pc = "returned" /\ res_out.op = "find_join_button_adaptive" /\ res_out.returned = 0)
        => res_out.tried = <<1, 2, 3, 4>>

ProbeOps == {"verify_joined_state", "verify_audio_publishing", "get_webrtc_state"}

\* C20: verify_joined_state, verify_audio_publishing and get_webrtc_state
\* return a value whatever the page does: the two verifications return true,
\* get_webrtc_state returns the page's state, or {connected: false,
\* streams: 0} when the evaluation raised.
ThmC20 ==
  (pc = "returned" /\ res_out.op \in ProbeOps) =>
    /\ ~res_out.raised
    /\ res_out.op \in {"verify_joined_state", "verify_audio_publishing"}
          => res_out.value = TRUE
    /\ res_out.op = "get_webrtc_state"
          => res_out.value = IF res_in.ev.kind = "raise" THEN NegativeState
                             ELSE res_in.ev.state

\* The evaluation of get_webrtc_state raised and the negative state came back.
WitC20 ==
  /\ pc = "returned" /\ res_out.op = "get_webrtc_state"
  /\ res_in.ev.kind = "raise" /\ res_out.value = NegativeState /\ ~res_out.raised


\* C22: when the description matches none of the known categories, the
\* structural resolver has evaluated at least one selector of a generic
\* ladder before it reports failure.
CxC22 ==
  LET known_category(d) ==
        \/ Contains(d, <<"j", "o", "i", "n", " ", "c", "h", "a", "n", "n", "e", "l">>)
        \/ Contains(d, <<"p", "u", "b", "l", "i", "s", "h", " ", "d", "r", "o", "p", "d", "o", "w", "n">>)
        \/ Contains(d, <<"p", "u", "b", "l", "i", "s", "h", " ", "a", "u", "d", "i", "o">>)
        \/ Contains(d, <<"s", "t", "o", "p">>)
  IN (mode = "ladder" /\ pc = "returned" /\ res_out.op = "_click_element_selenium"
        /\ ~known_category(Lower(res_in.description)) /\ ~res_out.ok)
       => Len(res_out.tried) >= 1

\* C23: a request for a join or joined-state query reaches the vision
\* model only after structural strategies for the same query were tried
\* and failed in the same call.
CxC23 ==
  vision_call.query \in {"join", "joined"} => vision_call.structural >= 1

\* The model did answer: the screen grab and the request both succeeded.
VisionAnswered == res_in.grab = "ok" /\ res_in.reply.kind = "reply"

\* The lower-cased response contains one of the six affirmative keywords.
AffirmativeReply ==
  \E k \in { <<"f", "o", "u", "n", "d">>, <<"s", "e", "e">>,
             <<"v", "i", "s", "i", "b", "l", "e">>, <<"l", "o", "c", "a", "t", "e", "d">>,
             <<"p", "r", "e", "s", "e", "n", "t">>,
             <<"i", "d", "e", "n", "t", "i", "f", "i", "e", "d">> } :
    Contains(Lower(res_in.reply.text), k)

\* C24: a detection call (no "click" in the instruction) of
\* computer_use_action reports success exactly when the lower-cased
\* response of the model contains one of found, see, visible, located,
\* present, identified, and reports no match otherwise.
ThmC24 ==
  (mode = "ladder" /\ pc = "returned" /\ res_out.op = "computer_use_action"
     /\ ~is_click_action(res_in.instruction) /\ VisionAnswered)
    => /\ res_out.success <=> AffirmativeReply
       /\ ~AffirmativeReply => res_out.outcome = "not_found"

\* A detection call answered "FOUND: joined" (upper case) is a success, and
\* one answered "No" is no match.
WitC24 ==
  /\ mode = "ladder" /\ pc = "returned" /\ res_out.op = "computer_use_action"
  /\ ~is_click_action(res_in.instruction) /\ VisionAnswered
  /\ res_in.reply.text # <<>> /\ res_in.reply.text[1] = "F"
  /\ AffirmativeReply /\ res_out.success

\* C25: a click call reports success only when the response claims that
\* the click target exists; a response that denies the target ("No",
\* "Not found") or an empty response is not reported as success.
CxC25 ==
  (mode = "ladder" /\ pc = "returned" /\ res_out.op = "computer_use_action"
     /\ is_click_action(res_in.instruction) /\ VisionAnswered
     /\ (res_in.reply.text = <<>> \/ res_in.reply.text[1] = "N"))
    => ~res_out.success


\* C26: the console-log buffer is append-only and keyed by session: in
\* every step the buffer only grows at its end, and the publishing-state
\* probe of a session has read only entries that the session's own page
\* produced.
CxC26 ==
  [][ /\ Len(console_logs) <= Len(console_logs')
      /\ SubSeq(console_logs', 1, Len(console_logs)) = console_logs
      /\ (mcp_last'.op = "publish_audio_stream" /\ mcp_last'.clicked)
           => mcp_last'.read \subseteq {mcp_last'.browser} ]_vars


\* C27: in every run of cleanup_browsers, stop_publishing is attempted
\* exactly when the publisher session is running and then strictly before
\* the publisher's driver is quit, and the driver of each role that holds
\* one is quit, whatever stop_publishing and the other quit do.
ThmC27 ==
  [][ LET At(e) == IF \E i \in DOMAIN cleanup_log' : cleanup_log'[i].op = e
                     THEN CHOOSE i \in DOMAIN cleanup_log' : cleanup_log'[i].op = e
                     ELSE 0
      IN cleanups' = cleanups + 1 =>
           /\ (At("stop_publishing") > 0) <=> ctl["chrome"].is_running
           /\ At("stop_publishing") > 0 => At("stop_publishing") = 1
           /\ ctl["chrome"].driver # NoDriver
                => At("quit_chrome") > At("stop_publishing")
           /\ ctl["safari"].driver # NoDriver
                => At("quit_safari") > 0 ]_vars

\* A cleanup in which stop_publishing failed and the publisher's quit()
\* raised, and the subscriber's driver was quit all the same.
WitC27 ==
  /\ Len(cleanup_log) = 3
  /\ cleanup_log[1] = [op |-> "stop_publishing", ok |-> FALSE]
  /\ cleanup_log[2] = [op |-> "quit_chrome", ok |-> FALSE]
  /\ cleanup_log[3].op = "quit_safari"

\* C28: a Retry answer at the Verification Gate makes the gate return to
\* the orchestrator with a retry outcome and no verdict: once the operator
\* has answered 'r', control is no longer inside the gate, and the attempt
\* holds no Pass / Fail verdict.
CxC28 ==
  (mode = "executor" /\ gate_in.retried)
    => (pc \notin {"gate_choice", "gate_comment"} /\ ~verification_result.set)

\* C29: when execute_test_case returned a result, the reporting call does
\* not raise and hands the result back as it got it, and main exits with 0
\* exactly when the result's own overall status is PASSED, whatever the
\* reporting result is.
ThmC29 ==
  (mode = "ladder" /\ pc = "returned" /\ res_out.op = "main"
     /\ res_in.run.kind = "returned")
    => /\ ~res_out.report_raised
       /\ res_out.result = res_in.run.result
       /\ res_out.exit = 0 <=> res_in.run.result.overall_status = "PASSED"
       /\ res_out.exit \in {0, 1}

\* The report failed (status FAILED from the formatter's handler) on a run
\* that PASSED, and main exits with 0.
WitC29 ==
  /\ mode = "ladder" /\ pc = "returned" /\ res_out.op = "main"
  /\ res_in.run.kind = "returned"
  /\ res_in.run.result.overall_status = "PASSED"
  /\ res_out.testrail = [status |-> "FAILED", comment |-> "Result formatting error"]
  /\ res_out.exit = 0

\* C30: closing an already-closed session is a no-op: after a call of
\* close_browser whose quit() succeeded, no later call on the same handle
\* performs another quit() (and, for Safari, another pkill).
CxC30 ==
  mode = "executor" =>
    \A r \in Roles : \A i \in DOMAIN closes[r] :
      closes[r][i] = "ok" => i = Len(closes[r])

\* C31: the publisher workflow walks launch, join click, joined-state
\* confirmation, publish-dropdown click, publish-option click and ready
\* screenshot in this order; it returns success only from the screenshot
\* step, after a launch that left the session running and a join click on
\* a visible button, and then with the screenshot path; a failed step
\* returns at once, with no later step.
ThmC31 ==
  [][ LET order == <<"pub_launch", "pub_join", "pub_verify", "pub_dropdown",
                     "pub_option", "pub_shot">>
          idx(p) == CHOOSE i \in DOMAIN order : order[i] = p
      IN mode = "executor" =>
           /\ (pc \notin PubPcs /\ pc' \in PubPcs) => pc' = "pub_launch"
           /\ (pc \in PubPcs /\ pc' \in PubPcs /\ pc' # pc) => idx(pc') = idx(pc) + 1
           /\ (~pub_result.set /\ pub_result'.set /\ pub_result'.success)
                => /\ pc = "pub_shot"
                   /\ pub_result'.screenshot
                   /\ ctl["chrome"].is_running
                   /\ join_el["chrome"] = "visible"
           /\ (~pub_result.set /\ pub_result'.set /\ ~pub_result'.success)
                => pc \in PubPcs /\ pc' \notin PubPcs
           /\ (pc \in PubPcs /\ pc' \notin PubPcs)
                => pub_result'.set \/ pc' = "except" ]_vars

\* The publisher workflow returned success with the ready screenshot.
WitC31 ==
  /\ mode = "executor" /\ pub_result.set /\ pub_result.success
  /\ pub_result.screenshot /\ join_el["chrome"] = "visible"

\* C32: a launch failure is terminal for the session.  A workflow calls
\* launch_browser once, in its first step: the step either leaves a fresh
\* running driver and goes on to the join click, or returns the failure
\* result with no join click; no other step creates a driver, and the
\* launch step is reached again only through the orchestrator's loop.
ThmC32 ==
  [][ mode = "executor" =>
        \A r \in Roles :
          LET launch == IF r = "chrome" THEN "pub_launch" ELSE "sub_launch"
              join == IF r = "chrome" THEN "pub_join" ELSE "sub_join"
              res == IF r = "chrome" THEN pub_result' ELSE sub_result'
          IN /\ (pc = launch /\ pc' # pc) =>
                  \/ /\ pc' = join
                     /\ ctl'[r] = [driver |-> executions, is_running |-> TRUE]
                     /\ executions \in live'[r]
                  \/ /\ pc' \notin (PubPcs \cup SubPcs)
                     /\ res.set /\ ~res.success
                     /\ join_el'[r] = ""
             /\ pc # launch => (ctl'[r].driver = ctl[r].driver /\ live'[r] \subseteq live[r])
             /\ (pc' = "pub_launch" /\ pc # "pub_launch") => executions' = executions + 1
             /\ (pc' = "sub_launch" /\ pc # "sub_launch") => pc = "pub_shot" ]_vars

\* A launch failed, the workflow returned the failure and no join was tried.
WitC32 ==
  /\ mode = "executor" /\ pub_result.set /\ ~pub_result.success
  /\ pub_result.error = <<"Failed to launch Chrome browser">>
  /\ join_el["chrome"] = "" /\ pc = "attempt_returned"

\* C33: in publish_audio_stream the two options are activated
\* independently: once the click on the publish control has returned, the
\* video option is attempted after the audio option whatever the audio
\* option returned, and the publishing probe is evaluated after both
\* whatever they returned.
ThmC33 ==
  (mcp_last.op = "publish_audio_stream" /\ mcp_last.clicked) =>
    \E i, j, k \in DOMAIN mcp_last.calls :
      /\ i < j /\ j < k
      /\ mcp_last.calls[i] = "click_publish_audio_option"
      /\ mcp_last.calls[j] = "click_publish_video_option"
      /\ mcp_last.calls[k] = "verify_audio_publishing"

\* The audio option failed; the video option was still tried, and succeeded,
\* and the probe was evaluated.
WitC33 ==
  /\ mcp_last.op = "publish_audio_stream" /\ mcp_last.clicked
  /\ ~mcp_last.audio /\ mcp_last.video /\ mcp_last.verified
  /\ Len(mcp_last.calls) = 5

\* C34: the category of a description is chosen by case-insensitive
\* containment with the priority join channel, publish dropdown, publish
\* audio + video, publish audio, stop.  A description that contains
\* 'publish audio + video' in any case never gets the audio ladder, and gets
\* the audio + video ladder unless a category of higher priority matches;
\* _wait_for_element_selenium and _click_element_selenium select the same
\* ordered ladder for every description.
ThmC34 ==
  (mode = "ladder" /\ pc = "returned"
     /\ res_out.op \in {"_click_element_selenium", "_wait_for_element_selenium"}) =>
    LET d == res_in.description
        low == Lower(d)
        jc == Contains(low, <<"j", "o", "i", "n", " ", "c", "h", "a", "n", "n", "e", "l">>)
        pd == Contains(low, <<"p", "u", "b", "l", "i", "s", "h", " ", "d", "r", "o", "p", "d", "o", "w", "n">>)
        av == Contains(low, <<"p", "u", "b", "l", "i", "s", "h", " ", "a", "u", "d", "i", "o", " ", "+", " ", "v", "i", "d", "e", "o">>)
    IN /\ res_out.selectors = selectors_for(d)
       /\ res_out.selectors = wait_selectors_for(d)
       /\ av => res_out.selectors # publish_audio_selectors
       /\ (av /\ ~jc /\ ~pd) => res_out.selectors = publish_audio_video_selectors
       /\ jc => res_out.selectors = join_channel_selectors
       /\ (pd /\ ~jc) => res_out.selectors = publish_dropdown_selectors

\* The wait resolver was called with an upper-case audio + video
\* description and chose the nine-selector audio + video ladder.
WitC34 ==
  /\ mode = "ladder" /\ pc = "returned" /\ res_out.op = "_wait_for_element_selenium"
  /\ res_in.description[1] = "P" /\ res_in.description[2] = "U"
  /\ Len(res_out.selectors) = 9 /\ res_out.ok

\* C35: a TestResult with passed = true comes out of an attempt only when, in
\* that attempt, the publisher workflow returned success, the subscriber
\* workflow returned success and the operator's choice at the verification
\* prompt was 'p' (followed by a comment line); the workflows' results alone
\* never make a pass.
ThmC35 ==
  (mode = "executor" /\ result.set /\ result.passed) =>
    /\ pub_result.set /\ pub_result.success
    /\ sub_result.set /\ sub_result.success
    /\ verification_result.passed
    /\ gate_in.last = "line"
    /\ Strip(Lower(gate_in.choice)) = <<"p">>

\* retry_test_execution returned a pass of its second attempt.
WitC35 ==
  /\ mode = "executor" /\ pc = "done" /\ result.set /\ result.passed
  /\ executions = 2 /\ pub_result.success /\ sub_result.success
  /\ Strip(Lower(gate_in.choice)) = <<"p">>

\* C36 (as claimed): with an operator who eventually gives a terminal answer
\* at every prompt, every call of get_verification_result returns, and
\* retry_test_execution returns a TestResult.
CxC36 ==
  /\ [](pc = "gate_choice" => <>(pc = "cleanup"))
  /\ (mode = "executor") ~> (pc = "done" /\ result.set /\ raised = "")

\* C37 (as claimed): PuppeteerMCPClient.cleanup closes every browser process
\* the client launched, the ones whose launch call failed after the browser
\* had started included, and leaves the registry empty: a process that is
\* still there after a cleanup is one whose close() was called and failed.
CxC37 ==
  [][ (mode = "mcp" /\ mcp_cleanups' = mcp_cleanups + 1) =>
        \A r \in Roles :
          /\ browsers'[r] = 0
          /\ procs'[r] \subseteq {browsers[r]} ]_vars

\* C38 (as claimed): retry_test_execution returns a TestResult for every
\* configured maximum, 0 included (no attempt is run and the result is a
\* failed one); it never ends with an error instead of a result.
CxC38 ==
  (mode = "executor" /\ pc = "done") =>
    /\ raised = ""
    /\ result.set
    /\ (max_retries = 0 => executions = 0 /\ ~result.passed)

\* C39: a failure of position_windows_for_verification neither fails nor
\* aborts the attempt: the step goes on to get_verification_result with no
\* result and no error recorded, and an attempt whose layout failed returns
\* only after the gate gave its verdict and cleanup_browsers ran, with the
\* verdict as its result.
ThmC39 ==
  [][ mode = "executor" =>
        /\ (pc = "position" /\ pc' # pc) =>
              /\ pc' = "gate_choice"
              /\ gate_in'.calls = gate_in.calls + 1
              /\ result' = result /\ exc' = exc /\ aborted' = aborted
        /\ (positioned = "failed" /\ pc # "attempt_returned" /\ pc' = "attempt_returned") =>
              /\ verification_result'.set
              /\ cleanups' >= 1
              /\ Len(cleanup_log') >= 2
              /\ result'.passed = verification_result'.passed ]_vars

\* The layout failed, the operator passed the test and cleanup ran.
WitC39 ==
  /\ mode = "executor" /\ positioned = "failed" /\ pc = "attempt_returned"
  /\ result.set /\ result.passed /\ cleanups >= 1

\* C40: join_pine_ridge_channel, publish_audio_stream and
\* verify_webrtc_connection, called for a browser id that is not in the
\* registry, return a failure result saying so; they do not raise, make no
\* call on any page, and leave the registry and the console-log buffer as
\* they were.
ThmC40 ==
  [][ (mode = "mcp" /\ mcp_last' # mcp_last
         /\ mcp_last'.op \in {"join_pine_ridge_channel", "publish_audio_stream",
                              "verify_webrtc_connection"}
         /\ \/ browsers[mcp_last'.browser] = 0
            \/ (mcp_last'.op = "verify_webrtc_connection" /\ browsers[mcp_last'.peer] = 0))
      => /\ ~mcp_last'.success
         /\ mcp_last'.error =
              IF mcp_last'.op = "verify_webrtc_connection"
                THEN <<"Required browsers not found">>
                ELSE <<"Browser ", mcp_last'.browser, " not found">>
         /\ mcp_last'.calls = <<>>
         /\ mcp_last'.read = {}
         /\ raised' = raised /\ pc' = pc
         /\ browsers' = browsers /\ procs' = procs
         /\ console_logs' = console_logs ]_vars

\* join_pine_ridge_channel was called for an id whose browser a cleanup had
\* removed from the registry, with a console entry in the buffer.
WitC40 ==
  /\ mode = "mcp" /\ mcp_last.op = "join_pine_ridge_channel"
  /\ browsers[mcp_last.browser] = 0 /\ mcp_cleanups >= 1
  /\ ~mcp_last.success /\ mcp_last.calls = <<>> /\ console_logs # <<>>

====
